---- MODULE Spec2Model ----
(***************************************************************************)
(* RakNet (SA-MP 0.3.7) reliability layer of go-raknet: the wire codec     *)
(* (DataPacket.Encode / DecodeDataPacket, ACK / NACK) and the per-session  *)
(* reliability engine (Session.AddToQueue, Update, HandleDataPacket,       *)
(* HandleACK, HandleNACK, StopStreaming, NextSeq and the flag setters) of  *)
(* source/protocol/raknet.go; the goroutines of source/server/server.go    *)
(* (Start, listen, the two ticker loops, Stop, the packet handlers) and    *)
(* the ACK / NACK encoders of pkg/raknet/protocol.go.                      *)
(*                                                                         *)
(* Bytes are integers 0..255 and byte slices are sequences of them.        *)
(* byte / uint16 arithmetic is taken modulo 2^8 / 2^16 as Go does; the     *)
(* uint32 counters stay far below 2^31 within the bounds of the model      *)
(* (TLC's integers are 32-bit), so their wrap at 2^32 is out of its reach. *)
(***************************************************************************)
EXTENDS Integers, Sequences, FiniteSets, TLC

VARIABLES
  \* ---- Session fields (type Session) ----
  MTU,                \* Session.MTU
  MessageIndex,       \* Session.MessageIndex   (uint32)
  SequenceNumber,     \* Session.SequenceNumber (uint32)
  OrderIndex,         \* Session.OrderIndex     (uint32, the only outbound order counter)
  ChannelOrderIndex,  \* Session.ChannelOrderIndex: channel -> expected inbound order index
  SendQueue,          \* Session.SendQueue
  RecoveryQueue,      \* Session.RecoveryQueue: seq -> DataPacket
  ACKQueue,           \* Session.ACKQueue (set)
  NACKQueue,          \* Session.NACKQueue (slice)
  SplitPackets,       \* Session.SplitPackets: split id -> (split index -> packet)
  Flags,              \* the five one-shot guard booleans
  SendSeq,            \* Session.SendSeq (E3 sequence)
  \* ---- what the operations hand back / put on the socket ----
  ret,                \* packets returned by the last HandleDataPacket
  lastOut,            \* byte strings written to the socket by the last Update
  \* ---- history (ghost) variables, read by the properties only ----
  crashed,            \* a handler hit a runtime panic (nil dereference): the process is gone
  enq,                \* number of AddToQueue calls so far (allocates packet identities)
  enqLog,             \* per AddToQueue call: the packet handed in and the packets put on the SendQueue
  sent,               \* every datagram emitted by Update, in emission order
  idleTicks,          \* consecutive idle Updates with a datagram awaiting its ACK (counted to RetryTicks + 1)
  nacks,              \* number of HandleNACK calls that put packets back on the SendQueue
  rxCount,            \* number of HandleDataPacket calls so far
  rxDp,               \* datagram of the last HandleDataPacket call
  rxPre,              \* what the last HandleDataPacket call found when it began (queued: and left)
  rxSeqs,             \* sequence numbers handed to HandleDataPacket so far
  retSrc,             \* for each returned packet, what it was made from
  inOrd,              \* ordered packets the last HandleDataPacket call processed in order
  lastOrd,            \* channel -> order index of the last ordered payload returned (-1: none)
  fragSeen,           \* split id -> fragments handed to HandleDataPacket so far
  rxSince,            \* sequence numbers of the non-empty datagrams handed to HandleDataPacket since the last Update
  \* ---- the codec round (SpecCodec): position, datagram, its bytes, the decoded datagram ----
  cpc, cDp, cBytes, cDec,
  \* ---- goroutines calling AddToQueue statement by statement (SpecConc) ----
  mu,                 \* Session.Mu: 0 when free, else the goroutine holding its write lock
  gpc,                \* goroutine -> the statement it is at
  gpkt,               \* goroutine -> the packet its call was handed
  gcalls,             \* AddToQueue calls begun so far
  \* ---- one BitStream written and read back (SpecStream) ----
  bsData,             \* BitStream.data, in pages
  bsOffset,           \* BitStream.offset
  bsWritten,          \* the values handed to the Write operations, in call order
  bsGot,              \* what the matching Read operations returned, in call order
  \* ---- one call of a pure function (SpecAck, SpecPayload) ----
  fIn,                \* the arguments
  fOut,               \* the results
  \* ---- the server's goroutines and the session state they share (SpecState) ----
  State,              \* Session.State
  rmu,                \* Session.Mu: the goroutines holding its read lock
  readLog,            \* the datagrams Server.listen has read from the socket, in the order read
  pending,            \* the goroutines started by listen that have not run yet (by position in readLog)
  running,            \* Server.running
  conn,               \* Server.conn: "nil", "open" or "closed"
  spc,                \* where Start (and the listen loop it ends in), the two ticker loops and Stop are
  lastAcc             \* the last access to Session.State: who, how, and whether under Session.Mu (ghost)

sessVars  == <<MTU, MessageIndex, SequenceNumber, OrderIndex, ChannelOrderIndex,
               SendQueue, RecoveryQueue, ACKQueue, NACKQueue, SplitPackets,
               Flags, SendSeq>>
outVars   == <<ret, lastOut, crashed>>
txGhost   == <<enq, enqLog, sent, idleTicks, nacks>>
rxGhost   == <<rxCount, rxDp, rxPre, rxSeqs, retSrc, inOrd, lastOrd, fragSeen, rxSince>>
codecVars == <<cpc, cDp, cBytes, cDec>>
concVars  == <<mu, gpc, gpkt, gcalls>>
streamVars == <<bsData, bsOffset, bsWritten, bsGot>>
fnVars    == <<fIn, fOut>>
stVars    == <<State, rmu, lastAcc>>
lsnVars   == <<readLog, pending>>
runVars   == <<running, conn, spc>>
srvVars   == <<stVars, lsnVars, runVars>>
vars      == <<sessVars, outVars, txGhost, rxGhost, codecVars, concVars, streamVars, fnVars, srvVars>>

----------------------------------------------------------------------------
\* Program constants

UNRELIABLE                == 0
UNRELIABLE_SEQUENCED      == 1
RELIABLE                  == 2
RELIABLE_ORDERED          == 3
RELIABLE_SEQUENCED        == 4
UNRELIABLE_WITH_ACK       == 5
RELIABLE_WITH_ACK         == 6
RELIABLE_ORDERED_WITH_ACK == 7

\* Session.State
STATE_UNCONNECTED == 0
STATE_CONNECTED == 3
STATE_READY == 5
STATE_IN_GAME == 6

\* NewServer: Start and Stop not called, no loop started
NotStarted == [Start |-> "idle", updateLoop |-> "off", sessionCleanupLoop |-> "off", Stop |-> "idle"]

\* no goroutine has touched Session.State yet
NoAccess == [op |-> "none", by |-> 0, locked |-> FALSE, got |-> FALSE]

DEFAULT_MTU_SIZE  == 576
MTU_SAFETY_MARGIN == 60
MaxBatch          == 120

\* timing: the tick period of the server's update loop and the retry delay
\* the protocol documents
TickMs       == 50
RetryDelayMs == 100

\* ticks that fit in one retry delay
RetryTicks == RetryDelayMs \div TickMs

\* widths of Go's byte, uint16 and the 24-bit wire fields
U8  == 2^8
U16 == 2^16
U24 == 2^24

----------------------------------------------------------------------------
\* Bounds of the model

MaxPkts    == 2   \* encapsulated packets per datagram handed to the codec / to HandleDataPacket
MaxTx      == 3   \* AddToQueue calls plus HandleNACK calls that re-queue (Spec, SpecSplit)
MaxRx      == 2   \* HandleDataPacket calls                (SpecRx)
MaxWrites  == 2   \* Write operations on the BitStream     (SpecStream)
MaxSeqs    == 2   \* sequence numbers in one ACK / NACK      (SpecAck)
ConcCalls  == 3   \* AddToQueue calls begun by the goroutines (SpecConc)
SessCalls  == 3   \* AddToQueue, HandleDataPacket, NextSeq and re-queueing HandleNACK calls (SpecSession)

----------------------------------------------------------------------------
\* Byte-level helpers

Min(a, b) == IF a < b THEN a ELSE b

\* Go's byte(v >> n)
ByteAt(v, n) == (v \div (2^n)) % U8

\* BitStream.WriteUint24 (little-endian, keeps the low 24 bits)
WriteUint24(v) == <<ByteAt(v, 0), ByteAt(v, 8), ByteAt(v, 16)>>

\* BitStream.WriteUint16 (big-endian)
WriteUint16(v) == <<ByteAt(v, 8), ByteAt(v, 0)>>

\* BitStream.WriteUint32 (big-endian)
WriteUint32(v) == <<ByteAt(v, 24), ByteAt(v, 16), ByteAt(v, 8), ByteAt(v, 0)>>

\* data[lo+1 .. hi] with 0-based half-open Go indexing data[lo:hi]
Slice(data, lo, hi) == [i \in 1..(hi - lo) |-> data[lo + i]]

\* 0-based element data[off]
At(data, off) == data[off + 1]

RECURSIVE Concat(_)
Concat(ss) == IF ss = <<>> THEN <<>> ELSE Head(ss) \o Concat(Tail(ss))

----------------------------------------------------------------------------
\* Encapsulated packets

IsReliable(r) == r \in {RELIABLE, RELIABLE_ORDERED, RELIABLE_SEQUENCED,
                        RELIABLE_WITH_ACK, RELIABLE_ORDERED_WITH_ACK}
IsSequenced(r) == r \in {UNRELIABLE_SEQUENCED, RELIABLE_SEQUENCED}
IsOrdered(r) == r \in {RELIABLE_ORDERED, RELIABLE_ORDERED_WITH_ACK}

\* &EncapsulatedPacket{} : every field zero. uid is the identity of the object
\* (the pointer in Go); 0 for packets that did not come through AddToQueue.
ZeroPacket ==
  [Reliability |-> 0, MessageIndex |-> 0, OrderIndex |-> 0, OrderChannel |-> 0,
   Split |-> FALSE, SplitCount |-> 0, SplitID |-> 0, SplitIndex |-> 0,
   Payload |-> <<>>, uid |-> 0]

\* a size that counts the order index without the channel byte
GetSizeNoChannel(ep) ==
  3 + (IF IsReliable(ep.Reliability) THEN 3 ELSE 0)
    + (IF IsSequenced(ep.Reliability) THEN 3 ELSE 0)
    + (IF IsOrdered(ep.Reliability) THEN 3 ELSE 0)
    + (IF ep.Split THEN 10 ELSE 0)
    + Len(ep.Payload)

GetSize(ep) ==
  3 + (IF IsReliable(ep.Reliability) THEN 3 ELSE 0)
    + (IF IsSequenced(ep.Reliability) THEN 3 ELSE 0)
    + (IF IsOrdered(ep.Reliability) THEN 4 ELSE 0)
    + (IF ep.Split THEN 10 ELSE 0)
    + Len(ep.Payload)

\* the same subtraction without the floor at 0
GetSafePayloadSizeUnclamped(mtu, isOrdered) ==
  (mtu - MTU_SAFETY_MARGIN) - (4 + (IF isOrdered THEN 11 ELSE 7))

GetSafePayloadSize(mtu, isOrdered) ==
  LET headerSize == 4 + (IF isOrdered THEN 11 ELSE 7)
      maxPayload == (mtu - MTU_SAFETY_MARGIN) - headerSize
  IN  IF maxPayload < 0 THEN 0 ELSE maxPayload

----------------------------------------------------------------------------
\* Wire codec

EncodeEncap(p) ==
  LET flags == ((p.Reliability * 32) % U8) + (IF p.Split THEN 16 ELSE 0)
      length == (Len(p.Payload) * 8) % U16
  IN  <<flags>> \o WriteUint16(length)
      \o (IF IsReliable(p.Reliability) THEN WriteUint24(p.MessageIndex) ELSE <<>>)
      \o (IF IsSequenced(p.Reliability) THEN WriteUint24(p.OrderIndex) ELSE <<>>)
      \o (IF IsOrdered(p.Reliability)
            THEN WriteUint24(p.OrderIndex) \o <<p.OrderChannel % U8>> ELSE <<>>)
      \o (IF p.Split
            THEN WriteUint32(p.SplitCount) \o WriteUint16(p.SplitID) \o WriteUint32(p.SplitIndex)
            ELSE <<>>)
      \o p.Payload

RECURSIVE EncodePackets(_)
EncodePackets(ps) ==
  IF ps = <<>> THEN <<>> ELSE EncodeEncap(Head(ps)) \o EncodePackets(Tail(ps))

\* DataPacket.Encode
Encode(dp) == <<128>> \o WriteUint24(dp.SequenceNumber) \o EncodePackets(dp.Packets)

LE24(data, off) == At(data, off) + At(data, off + 1) * 256 + At(data, off + 2) * 65536
BE16(data, off) == At(data, off) * 256 + At(data, off + 1)
BE32(data, off) == At(data, off) * 16777216 + At(data, off + 1) * 65536
                   + At(data, off + 2) * 256 + At(data, off + 3)

\* lengthBytes := int((lengthBits + 7) / 8): the sum and the quotient are
\* uint16, the conversion to int comes last
LengthBytes(lengthBits) == ((lengthBits + 7) % U16) \div 8

\* One pass of the loop body of DecodeDataPacket starting at offset off:
\* [ok |-> FALSE] where the code breaks, else the packet and the next offset.
DecodeOne(data, off) ==
  LET n        == Len(data)
      encFlags == At(data, off)
      rel      == (encFlags \div 32) % 8
      split    == ((encFlags \div 16) % 2) = 1
      o1       == off + 1
  IN
  IF o1 + 1 >= n THEN [ok |-> FALSE] ELSE
  LET lengthBits  == BE16(data, o1)
      lengthBytes == LengthBytes(lengthBits)
      o2          == o1 + 2
  IN
  IF IsReliable(rel) /\ o2 + 3 > n THEN [ok |-> FALSE] ELSE
  LET mi == IF IsReliable(rel) THEN LE24(data, o2) ELSE 0
      o3 == IF IsReliable(rel) THEN o2 + 3 ELSE o2
  IN
  IF IsSequenced(rel) /\ o3 + 3 > n THEN [ok |-> FALSE] ELSE
  LET o4 == IF IsSequenced(rel) THEN o3 + 3 ELSE o3    \* the sequence index is skipped
  IN
  IF IsOrdered(rel) /\ o4 + 4 > n THEN [ok |-> FALSE] ELSE
  LET oi == IF IsOrdered(rel) THEN LE24(data, o4) ELSE 0
      oc == IF IsOrdered(rel) THEN At(data, o4 + 3) ELSE 0
      o5 == IF IsOrdered(rel) THEN o4 + 4 ELSE o4
  IN
  IF split /\ o5 + 10 > n THEN [ok |-> FALSE] ELSE
  LET sc == IF split THEN BE32(data, o5) ELSE 0
      si == IF split THEN BE16(data, o5 + 4) ELSE 0
      sx == IF split THEN BE32(data, o5 + 6) ELSE 0
      o6 == IF split THEN o5 + 10 ELSE o5
  IN
  IF o6 + lengthBytes > n THEN [ok |-> FALSE] ELSE
  [ok |-> TRUE,
   next |-> o6 + lengthBytes,
   packet |-> [Reliability |-> rel, MessageIndex |-> mi, OrderIndex |-> oi,
               OrderChannel |-> oc, Split |-> split, SplitCount |-> sc,
               SplitID |-> si, SplitIndex |-> sx,
               Payload |-> Slice(data, o6, o6 + lengthBytes), uid |-> 0]]

RECURSIVE DecodeLoop(_, _, _)
DecodeLoop(data, off, acc) ==
  IF off >= Len(data) THEN acc
  ELSE LET r == DecodeOne(data, off)
       IN  IF r.ok THEN DecodeLoop(data, r.next, Append(acc, r.packet)) ELSE acc

\* DecodeDataPacket: [err |-> TRUE] or the decoded datagram
DecodeDataPacket(data) ==
  IF Len(data) < 4 THEN [err |-> TRUE]
  ELSE IF (At(data, 0) \div 128) % 2 = 0 THEN [err |-> TRUE]
  ELSE [err |-> FALSE, SequenceNumber |-> LE24(data, 1),
        Packets |-> DecodeLoop(data, 4, <<>>)]

\* ACK.Encode / NACK.Encode; first the records with a leading record-type byte
RECURSIVE EncodeSeqsFlagged(_)
EncodeSeqsFlagged(seqs) ==
  IF seqs = <<>> THEN <<>>
  ELSE <<1, ByteAt(Head(seqs), 0), ByteAt(Head(seqs), 8), ByteAt(Head(seqs), 16)>>
       \o EncodeSeqsFlagged(Tail(seqs))

RECURSIVE EncodeSeqs(_)
EncodeSeqs(seqs) ==
  IF seqs = <<>> THEN <<>>
  ELSE <<ByteAt(Head(seqs), 0), ByteAt(Head(seqs), 8), ByteAt(Head(seqs), 16)>>
       \o EncodeSeqs(Tail(seqs))

AckNackEncode(id, seqs) ==
  LET count == Len(seqs) % U16
  IN  <<id, ByteAt(count, 0), ByteAt(count, 8)>> \o EncodeSeqs(seqs)

\* a variant that lists every sequence number twice
ACKEncodeTwice(seqs) == AckNackEncode(192, seqs \o seqs)

ACKEncode(seqs) == AckNackEncode(192, seqs)

NACKEncode(seqs) == AckNackEncode(160, seqs)

----------------------------------------------------------------------------
\* BitStream reads over (data, offset): [v, off, err]

ReadByte(data, off) ==
  IF off >= Len(data) THEN [v |-> 0, off |-> off, err |-> TRUE]
  ELSE [v |-> At(data, off), off |-> off + 1, err |-> FALSE]

\* BitStream.ReadUint16: big-endian, nothing consumed on failure
ReadUint16(data, off) ==
  IF off + 2 > Len(data) THEN [v |-> 0, off |-> off, err |-> TRUE]
  ELSE [v |-> BE16(data, off), off |-> off + 2, err |-> FALSE]

\* BitStream.ReadUint24: three ReadByte calls; the bytes read before a failing
\* one stay consumed and the result is 0
ReadUint24(data, off) ==
  LET b1 == ReadByte(data, off)
      b2 == ReadByte(data, b1.off)
      b3 == ReadByte(data, b2.off)
  IN  IF b1.err THEN [v |-> 0, off |-> b1.off, err |-> TRUE]
      ELSE IF b2.err THEN [v |-> 0, off |-> b2.off, err |-> TRUE]
      ELSE IF b3.err THEN [v |-> 0, off |-> b3.off, err |-> TRUE]
      ELSE [v |-> b1.v + b2.v * 256 + b3.v * 65536, off |-> b3.off, err |-> FALSE]

\* The record loop shared by HandleACK and HandleNACK: the (start, end) pairs
\* in the order the loop visits them. Read errors are ignored by the code, so
\* a record that cannot be read is the pair (0, 0). Past the end of the
\* data every read fails and consumes nothing: all records left are (0, 0).
RECURSIVE ReadRecords(_, _, _, _)
ReadRecords(data, off, left, acc) ==
  IF left = 0 THEN acc
  ELSE IF off >= Len(data) THEN acc \o [i \in 1..left |-> <<0, 0>>]
  ELSE LET f == ReadByte(data, off)
           s == ReadUint24(data, f.off)
           e == ReadUint24(data, s.off)
       IN  ReadRecords(data, e.off, left - 1, Append(acc, <<s.v, e.v>>))

AckRecords(data) ==
  LET flag  == ReadByte(data, 0)
      count == ReadUint16(data, flag.off)
  IN  ReadRecords(data, count.off, count.v, <<>>)

----------------------------------------------------------------------------
\* a variant that does not count
Stay32(v) == v

\* v++ on a uint32 (no counter of the model comes near 2^32)
Inc32(v) == v + 1

\* Maps (Go maps are partial functions)

Has(m, k) == k \in DOMAIN m
Put(m, k, v) == [x \in DOMAIN m \cup {k} |-> IF x = k THEN v ELSE m[x]]
Drop(m, ks) == [x \in DOMAIN m \ ks |-> m[x]]
EmptyMap == [x \in {} |-> 0]

SetMin(S) == CHOOSE x \in S : \A y \in S : x <= y

RECURSIVE Ascending(_)
Ascending(S) == IF S = {} THEN <<>> ELSE <<SetMin(S)>> \o Ascending(S \ {SetMin(S)})

\* every ordering of a finite set, as sequences (Go's map iteration order)
Orderings(S) ==
  {f \in [1..Cardinality(S) -> S] : \A i, j \in 1..Cardinality(S) : i # j => f[i] # f[j]}

----------------------------------------------------------------------------
\* Session.HandleDataPacket: the loop over dp.Packets

\* s.ChannelOrderIndex[channel]: a missing key reads as 0
Expected(coi, channel) == IF Has(coi, channel) THEN coi[channel] ELSE 0

\* &RakNetPacket{PacketID: b[0], Payload: b[1:]}
MakeRakNetPacket(b) == [PacketID |-> Head(b), Payload |-> Tail(b)]

\* the payloads of fragments 0 .. count-1 of one group, in index order
GroupBytes(group, count) == Concat([i \in 1..count |-> group[i - 1].Payload])

\* st: the session fields the loop touches (coi, sp), the slice being built
\* (packets), whether the loop has panicked (crash), and the history of the
\* call (src: what each returned packet was made from; inOrd: the ordered
\* packets found in order; lastOrd: last ordered index returned per channel).
Deliver(st, encap, kind, b) ==
  IF Len(b) > 0
    THEN [st EXCEPT !.packets = Append(@, MakeRakNetPacket(b)),
                    !.src = Append(@, [kind |-> kind, encap |-> encap, bytes |-> b]),
                    !.lastOrd = IF IsOrdered(encap.Reliability)
                                  THEN Put(@, encap.OrderChannel, encap.OrderIndex)
                                  ELSE @]
    ELSE st

\* the split branch (lines 1080-1100)
IngestSplit(st, encap) ==
  LET id    == encap.SplitID
      sp1   == IF Has(st.sp, id) THEN st.sp ELSE Put(st.sp, id, EmptyMap)
      sp2   == Put(sp1, id, Put(sp1[id], encap.SplitIndex, encap))
      group == sp2[id]
  IN  IF Cardinality(DOMAIN group) = encap.SplitCount
        THEN IF \E i \in 0..(encap.SplitCount - 1) : ~Has(group, i)
               \* SplitPackets[id][i] is nil: nil pointer dereference
               THEN [st EXCEPT !.sp = sp2, !.crash = TRUE]
               ELSE Deliver([st EXCEPT !.sp = Drop(sp2, {id})], encap, "split",
                            GroupBytes(group, encap.SplitCount))
        ELSE [st EXCEPT !.sp = sp2]

\* split or plain (lines 1079-1109)
IngestPayload(st, encap) ==
  IF encap.Split THEN IngestSplit(st, encap)
  ELSE Deliver(st, encap, "plain", encap.Payload)

\* a variant that leaves the expected index where it was
AdvanceNot(coi, channel, expectedOrderIndex) == coi

\* in-order receipt: the channel expects the next index (lines 1072-1076)
Advance(coi, channel, expectedOrderIndex) ==
  Put(coi, channel, Inc32(expectedOrderIndex))

\* one iteration of the loop (lines 1043-1110)
IngestOne(st, encap) ==
  IF st.crash THEN st
  ELSE IF IsOrdered(encap.Reliability)
    THEN LET expectedOrderIndex == Expected(st.coi, encap.OrderChannel)
         IN  IF encap.OrderIndex < expectedOrderIndex
               THEN st                                           \* duplicate: continue
               ELSE IF encap.OrderIndex = expectedOrderIndex
                 THEN IngestPayload(
                        [st EXCEPT !.coi = Advance(@, encap.OrderChannel,
                                                   expectedOrderIndex),
                                   !.inOrd = Append(@, encap)],
                        encap)
                 ELSE IngestPayload(st, encap)                   \* out of order: processed anyway
    ELSE IngestPayload(st, encap)

RECURSIVE IngestAll(_, _)
IngestAll(st, packets) ==
  IF packets = <<>> THEN st ELSE IngestAll(IngestOne(st, Head(packets)), Tail(packets))

\* history: the split fragments of a datagram, added to the per-id record
RECURSIVE NoteFragments(_, _)
NoteFragments(seen, packets) ==
  IF packets = <<>> THEN seen
  ELSE LET e == Head(packets)
           f == [SplitIndex |-> e.SplitIndex, SplitCount |-> e.SplitCount, Payload |-> e.Payload]
       IN  NoteFragments(
             IF e.Split
               THEN Put(seen, e.SplitID, (IF Has(seen, e.SplitID) THEN seen[e.SplitID] ELSE {}) \cup {f})
               ELSE seen,
             Tail(packets))

\* an acknowledgement step that would queue every datagram's sequence number
AckAlways(dp) == ACKQueue \cup {dp.SequenceNumber}

\* lines 1035-1038: the sequence number is queued unless the datagram is empty
AckAfter(dp) ==
  IF Len(dp.Packets) > 0 THEN ACKQueue \cup {dp.SequenceNumber} ELSE ACKQueue

\* the body of Session.HandleDataPacket, from Lock to the deferred Unlock
IngestDatagram(dp) ==
  LET st0 == [coi |-> ChannelOrderIndex, sp |-> SplitPackets, packets |-> <<>>,
              crash |-> FALSE, src |-> <<>>, inOrd |-> <<>>, lastOrd |-> lastOrd]
      st  == IngestAll(st0, dp.Packets)
  IN  /\ ~crashed
      /\ ACKQueue' = AckAfter(dp)
      /\ ChannelOrderIndex' = st.coi
      /\ SplitPackets' = st.sp
      /\ crashed' = st.crash
      /\ ret' = IF st.crash THEN <<>> ELSE st.packets
      /\ retSrc' = IF st.crash THEN <<>> ELSE st.src
      /\ inOrd' = st.inOrd
      /\ lastOrd' = st.lastOrd
      /\ rxCount' = rxCount + 1
      /\ rxDp' = dp
      /\ rxPre' = [coi |-> ChannelOrderIndex,
                   seenSeq |-> dp.SequenceNumber \in rxSeqs,
                   same |-> rxCount > 0 /\ rxDp = dp,
                   inOrd |-> inOrd,
                   lastOrd |-> lastOrd,
                   frag |-> fragSeen,
                   sp |-> SplitPackets,
                   queued |-> dp.SequenceNumber \in ACKQueue']
      /\ rxSeqs' = rxSeqs \cup {dp.SequenceNumber}
      /\ fragSeen' = NoteFragments(fragSeen, dp.Packets)
      /\ rxSince' = IF Len(dp.Packets) > 0 THEN rxSince \cup {dp.SequenceNumber} ELSE rxSince
      /\ UNCHANGED <<MTU, MessageIndex, SequenceNumber, OrderIndex, SendQueue,
                     RecoveryQueue, NACKQueue, Flags, SendSeq, lastOut>>
      /\ UNCHANGED <<txGhost, codecVars, concVars, streamVars, fnVars>>

\* Session.HandleDataPacket called on the session by one caller
HandleDataPacket(dp) ==
  /\ IngestDatagram(dp)
  /\ UNCHANGED srvVars

----------------------------------------------------------------------------
\* Session.AddToQueue

\* the packet as AddToQueue stamps it
Stamp(packet, mi, oi) ==
  [packet EXCEPT !.MessageIndex = IF IsReliable(packet.Reliability) THEN mi ELSE @,
                 !.OrderIndex   = IF IsOrdered(packet.Reliability) THEN oi ELSE @]

AddToQueue(packet) ==
  LET p == Stamp([packet EXCEPT !.uid = enq + 1], MessageIndex, OrderIndex)
  IN  /\ ~crashed
      /\ MessageIndex' = IF IsReliable(packet.Reliability) THEN Inc32(MessageIndex) ELSE MessageIndex
      /\ OrderIndex' = IF IsOrdered(packet.Reliability) THEN Inc32(OrderIndex) ELSE OrderIndex
      /\ SendQueue' = Append(SendQueue, p)
      /\ enq' = enq + 1
      /\ enqLog' = Append(enqLog, [in |-> packet, out |-> <<p>>])
      /\ UNCHANGED <<MTU, SequenceNumber, ChannelOrderIndex, RecoveryQueue, ACKQueue,
                     NACKQueue, SplitPackets, Flags, SendSeq>>
      /\ UNCHANGED <<outVars, sent, idleTicks, nacks, rxGhost, codecVars, concVars, streamVars, fnVars, srvVars>>

----------------------------------------------------------------------------
\* Session.AddToQueue statement by statement, as goroutines run it

Goroutines == {1, 2}

\* the goroutine's own variables change as given, the others' stay
At1(f, g, v) == [f EXCEPT ![g] = v]

ConcFrame ==
  UNCHANGED <<MTU, SequenceNumber, ChannelOrderIndex, RecoveryQueue, ACKQueue, NACKQueue,
              SplitPackets, Flags, SendSeq, outVars, sent, idleTicks, nacks, rxGhost,
              codecVars, streamVars, fnVars, srvVars>>

\* the call: AddToQueue(packet)
CallAddToQueue(g, packet) ==
  /\ ~crashed
  /\ gpc[g] = "idle"
  /\ gcalls' = gcalls + 1
  /\ gpkt' = At1(gpkt, g, [packet EXCEPT !.uid = gcalls + 1])
  /\ gpc' = At1(gpc, g, "lock")
  /\ UNCHANGED <<MessageIndex, OrderIndex, SendQueue, enq, enqLog, mu>>
  /\ ConcFrame

\* a Lock that would let the goroutine in while another holds the mutex
LockUnguarded(g) ==
  /\ gpc[g] = "lock"
  /\ mu' = g
  /\ gpc' = At1(gpc, g, "msg")
  /\ UNCHANGED <<MessageIndex, OrderIndex, SendQueue, enq, enqLog, gpkt, gcalls>>
  /\ ConcFrame

\* s.Mu.Lock()
Lock(g) ==
  /\ gpc[g] = "lock"
  /\ mu = 0
  /\ mu' = g
  /\ gpc' = At1(gpc, g, "msg")
  /\ UNCHANGED <<MessageIndex, OrderIndex, SendQueue, enq, enqLog, gpkt, gcalls>>
  /\ ConcFrame

\* if reliable { packet.MessageIndex = s.MessageIndex
StampMessageIndex(g) ==
  /\ gpc[g] = "msg"
  /\ IF IsReliable(gpkt[g].Reliability)
       THEN /\ gpkt' = At1(gpkt, g, [gpkt[g] EXCEPT !.MessageIndex = MessageIndex])
            /\ gpc' = At1(gpc, g, "msg++")
       ELSE /\ gpkt' = gpkt
            /\ gpc' = At1(gpc, g, "ord")
  /\ UNCHANGED <<MessageIndex, OrderIndex, SendQueue, enq, enqLog, mu, gcalls>>
  /\ ConcFrame

\* s.MessageIndex++ }
IncMessageIndex(g) ==
  /\ gpc[g] = "msg++"
  /\ MessageIndex' = Inc32(MessageIndex)
  /\ gpc' = At1(gpc, g, "ord")
  /\ UNCHANGED <<OrderIndex, SendQueue, enq, enqLog, mu, gpkt, gcalls>>
  /\ ConcFrame

\* if ordered { packet.OrderIndex = s.OrderIndex
StampOrderIndex(g) ==
  /\ gpc[g] = "ord"
  /\ IF IsOrdered(gpkt[g].Reliability)
       THEN /\ gpkt' = At1(gpkt, g, [gpkt[g] EXCEPT !.OrderIndex = OrderIndex])
            /\ gpc' = At1(gpc, g, "ord++")
       ELSE /\ gpkt' = gpkt
            /\ gpc' = At1(gpc, g, "append")
  /\ UNCHANGED <<MessageIndex, OrderIndex, SendQueue, enq, enqLog, mu, gcalls>>
  /\ ConcFrame

\* s.OrderIndex++ }
IncOrderIndex(g) ==
  /\ gpc[g] = "ord++"
  /\ OrderIndex' = Inc32(OrderIndex)
  /\ gpc' = At1(gpc, g, "append")
  /\ UNCHANGED <<MessageIndex, SendQueue, enq, enqLog, mu, gpkt, gcalls>>
  /\ ConcFrame

\* s.SendQueue = append(s.SendQueue, packet)
AppendToQueue(g) ==
  /\ gpc[g] = "append"
  /\ SendQueue' = Append(SendQueue, gpkt[g])
  /\ enq' = enq + 1
  /\ enqLog' = Append(enqLog, [in |-> gpkt[g], out |-> <<gpkt[g]>>])
  /\ gpc' = At1(gpc, g, "unlock")
  /\ UNCHANGED <<MessageIndex, OrderIndex, mu, gpkt, gcalls>>
  /\ ConcFrame

\* defer s.Mu.Unlock()
Unlock(g) ==
  /\ gpc[g] = "unlock"
  /\ mu' = 0
  /\ gpc' = At1(gpc, g, "idle")
  /\ UNCHANGED <<MessageIndex, OrderIndex, SendQueue, enq, enqLog, gpkt, gcalls>>
  /\ ConcFrame

----------------------------------------------------------------------------
\* Session.Update (the 50 ms tick)

\* a drain loop that would hand the batch over newest first
DrainNewestFirst(queue) ==
  LET n == Min(Len(queue), MaxBatch)
  IN  [batch |-> [i \in 1..n |-> queue[n + 1 - i]], rest |-> SubSeq(queue, n + 1, Len(queue))]

\* the drain loop (lines 1009-1013): up to 120 packets from the head of the queue
Drain(queue) ==
  LET n == Min(Len(queue), MaxBatch)
  IN  [batch |-> SubSeq(queue, 1, n), rest |-> SubSeq(queue, n + 1, Len(queue))]

\* ackSeqs: the ACKQueue in the order the map iteration yields it
Update(ackSeqs) ==
  LET sendsData == Len(SendQueue) > 0
      d         == Drain(SendQueue)
      dp        == [SequenceNumber |-> SequenceNumber, Packets |-> d.batch]
      outAck    == IF ACKQueue # {} THEN <<ACKEncode(ackSeqs)>> ELSE <<>>
      outNack   == IF Len(NACKQueue) > 0 THEN <<NACKEncode(NACKQueue)>> ELSE <<>>
      outData   == IF sendsData THEN <<Encode(dp)>> ELSE <<>>
  IN  /\ ~crashed
      /\ ACKQueue' = {}
      /\ NACKQueue' = <<>>
      /\ SequenceNumber' = IF sendsData THEN Inc32(SequenceNumber) ELSE SequenceNumber
      /\ SendQueue' = IF sendsData THEN d.rest ELSE SendQueue
      /\ RecoveryQueue' = IF sendsData THEN Put(RecoveryQueue, dp.SequenceNumber, dp)
                                       ELSE RecoveryQueue
      /\ lastOut' = outAck \o outNack \o outData
      /\ sent' = IF sendsData THEN Append(sent, dp) ELSE sent
      /\ idleTicks' = IF ~sendsData /\ DOMAIN RecoveryQueue # {}
                        THEN Min(idleTicks + 1, RetryTicks + 1) ELSE 0
      /\ UNCHANGED <<MTU, MessageIndex, OrderIndex, ChannelOrderIndex, SplitPackets,
                     Flags, SendSeq, ret, crashed, enq, enqLog, nacks>>
      /\ rxSince' = {}
      /\ UNCHANGED <<rxCount, rxDp, rxPre, rxSeqs, retSrc, inOrd, lastOrd, fragSeen>>
      /\ UNCHANGED <<codecVars, concVars, streamVars, fnVars, srvVars>>

----------------------------------------------------------------------------
\* Session.HandleACK / Session.HandleNACK

\* a variant whose loop stops before the end of the range
InRecordsOpen(seq, records) ==
  \E i \in DOMAIN records : records[i][1] <= seq /\ seq < records[i][2]

\* for seq := start; seq <= end; seq++ (lines 1127, 1146)
InRecords(seq, records) ==
  \E i \in DOMAIN records : records[i][1] <= seq /\ seq <= records[i][2]

\* the recovery queue after the deletes of HandleACK (lines 1119-1131)
Acked(recovery, data) ==
  Drop(recovery, {k \in DOMAIN recovery : InRecords(k, AckRecords(data))})

HandleACK(data) ==
  LET records == AckRecords(data)
  IN  /\ ~crashed
      /\ RecoveryQueue' = Acked(RecoveryQueue, data)
      /\ idleTicks' = 0
      /\ UNCHANGED <<MTU, MessageIndex, SequenceNumber, OrderIndex, ChannelOrderIndex,
                     SendQueue, ACKQueue, NACKQueue, SplitPackets, Flags, SendSeq>>
      /\ UNCHANGED <<outVars, enq, enqLog, sent, nacks, rxGhost, codecVars, concVars, streamVars, fnVars, srvVars>>

\* the packets HandleNACK appends for one record: for seq := start; seq <= end
\* those of every datagram still in the recovery queue, in its packet order
RequeueOne(recovery, record) ==
  LET keys == Ascending({k \in DOMAIN recovery : record[1] <= k /\ k <= record[2]})
  IN  Concat([i \in 1..Len(keys) |-> recovery[keys[i]].Packets])

\* a variant that puts the packets in front of the queue
RequeueFront(queue, recovery, records) ==
  Concat([i \in 1..Len(records) |-> RequeueOne(recovery, records[i])]) \o queue

RECURSIVE Requeue(_, _, _)
Requeue(queue, recovery, records) ==
  IF records = <<>> THEN queue
  ELSE Requeue(queue \o RequeueOne(recovery, Head(records)), recovery, Tail(records))

HandleNACK(data) ==
  LET q == Requeue(SendQueue, RecoveryQueue, AckRecords(data))
  IN  /\ ~crashed
      /\ SendQueue' = q
      /\ idleTicks' = 0
      /\ nacks' = IF q # SendQueue THEN nacks + 1 ELSE nacks
      /\ UNCHANGED <<MTU, MessageIndex, SequenceNumber, OrderIndex, ChannelOrderIndex,
                     RecoveryQueue, ACKQueue, NACKQueue, SplitPackets, Flags, SendSeq>>
      /\ UNCHANGED <<outVars, enq, enqLog, sent, rxGhost, codecVars, concVars, streamVars, fnVars, srvVars>>

----------------------------------------------------------------------------
\* Flags, StopStreaming, NextSeq

FlagNames == {"HandshakeSent", "StreamingDone", "GameEntrySent",
              "PostStreamingSent", "JoinResponseSent"}

SetFlag(name, value) ==
  /\ ~crashed
  /\ Flags' = [Flags EXCEPT ![name] = value]
  /\ UNCHANGED <<MTU, MessageIndex, SequenceNumber, OrderIndex, ChannelOrderIndex,
                 SendQueue, RecoveryQueue, ACKQueue, NACKQueue, SplitPackets, SendSeq>>
  /\ UNCHANGED <<outVars, txGhost, rxGhost, codecVars, concVars, streamVars, fnVars, srvVars>>

SetHandshakeSent(value)     == SetFlag("HandshakeSent", value)
SetStreamingDone(value)     == SetFlag("StreamingDone", value)
SetGameEntrySent(value)     == SetFlag("GameEntrySent", value)
SetPostStreamingSent(value) == SetFlag("PostStreamingSent", value)
SetJoinResponseSent(value)  == SetFlag("JoinResponseSent", value)

\* a StopStreaming that would start the session's numbering afresh
StopStreamingResets ==
  /\ ~crashed
  /\ Flags' = [f \in FlagNames |-> FALSE]
  /\ SendQueue' = <<>>
  /\ MessageIndex' = 0
  /\ SequenceNumber' = 0
  /\ OrderIndex' = 0
  /\ UNCHANGED <<MTU, ChannelOrderIndex, RecoveryQueue, ACKQueue, NACKQueue,
                 SplitPackets, SendSeq>>
  /\ UNCHANGED <<outVars, txGhost, rxGhost, codecVars, concVars, streamVars, fnVars, srvVars>>

StopStreaming ==
  /\ ~crashed
  /\ Flags' = [f \in FlagNames |-> FALSE]
  /\ SendQueue' = <<>>
  /\ UNCHANGED <<MTU, MessageIndex, SequenceNumber, OrderIndex, ChannelOrderIndex,
                 RecoveryQueue, ACKQueue, NACKQueue, SplitPackets, SendSeq>>
  /\ UNCHANGED <<outVars, txGhost, rxGhost, codecVars, concVars, streamVars, fnVars, srvVars>>

NextSeq ==
  /\ ~crashed
  /\ SendSeq' = Inc32(SendSeq)
  /\ UNCHANGED <<MTU, MessageIndex, SequenceNumber, OrderIndex, ChannelOrderIndex,
                 SendQueue, RecoveryQueue, ACKQueue, NACKQueue, SplitPackets, Flags>>
  /\ UNCHANGED <<outVars, txGhost, rxGhost, codecVars, concVars, streamVars, fnVars, srvVars>>

----------------------------------------------------------------------------
\* Inputs

\* a packet as a caller hands it to AddToQueue
NewPacket(r, channel, payload) ==
  [ZeroPacket EXCEPT !.Reliability = r, !.OrderChannel = channel, !.Payload = payload]

Channels == {0, 1}

\* the packets enqueued on the sending side: an unreliable one and a Reliable
\* Ordered one on each of two channels
EnqPackets ==
  {NewPacket(UNRELIABLE, 0, <<1>>)}
    \cup {NewPacket(RELIABLE_ORDERED, c, <<1>>) : c \in Channels}

\* one byte more than the safe payload of a Reliable Ordered packet at the default MTU
BigPayload == [i \in 1..(GetSafePayloadSize(DEFAULT_MTU_SIZE, TRUE) + 1) |-> 0]

\* the largest payload that needs no splitting
SafePayload == [i \in 1..GetSafePayloadSize(DEFAULT_MTU_SIZE, TRUE) |-> 0]

\* the packets enqueued where splitting matters
SplitEnqPackets ==
  {NewPacket(RELIABLE_ORDERED, 0, BigPayload),
   NewPacket(RELIABLE_ORDERED, 0, SafePayload),
   NewPacket(RELIABLE_ORDERED, 0, <<1>>),
   NewPacket(UNRELIABLE, 0, <<1>>)}

\* an ACK / NACK as a RakNet peer sends it: count, then per record a
\* single/range flag byte, start and end
RECURSIVE PeerRecords(_)
PeerRecords(records) ==
  IF records = <<>> THEN <<>>
  ELSE LET r == Head(records)
       IN  <<(IF r[1] = r[2] THEN 1 ELSE 0)>> \o WriteUint24(r[1]) \o WriteUint24(r[2])
           \o PeerRecords(Tail(records))

PeerAckNack(id, records) == <<id>> \o WriteUint16(Len(records)) \o PeerRecords(records)

\* the wire sequence numbers a peer may name: those in flight and the next one
PeerSeqs == {k % U24 : k \in DOMAIN RecoveryQueue} \cup {SequenceNumber % U24}

PeerRecordLists ==
  {<<>>} \cup {<<r>> : r \in {x \in PeerSeqs \X PeerSeqs : x[1] <= x[2]}}

\* lists of one range or of two single sequence numbers, in either order,
\* the same one twice included
PeerRecordPairs ==
  PeerRecordLists \cup {<<(<<a, a>>), (<<b, b>>)>> : a \in PeerSeqs, b \in PeerSeqs}

\* an inbound packet as the peer's encoder and DecodeDataPacket leave it
RxPacket(r, channel, oi, payload) ==
  [NewPacket(r, channel, payload) EXCEPT !.OrderIndex = oi]

\* fragment index of a group of count fragments with split id sid
Fragment(p, sid, count, index) ==
  [p EXCEPT !.Split = TRUE, !.SplitID = sid, !.SplitCount = count, !.SplitIndex = index]

\* inbound packets: ordered ones on two channels, with a gap to arrive out of
\* order, a reliable and an unreliable one, and the two fragments of a
\* Reliable group and of a Reliable Ordered group (one order index for the
\* whole message)
RxPackets ==
  {RxPacket(RELIABLE_ORDERED, 0, 0, <<10>>),
   RxPacket(RELIABLE_ORDERED, 0, 1, <<11>>),
   RxPacket(RELIABLE_ORDERED, 1, 0, <<12>>),
   RxPacket(RELIABLE, 0, 0, <<13>>),
   RxPacket(UNRELIABLE, 0, 0, <<14>>)}
    \cup {Fragment(RxPacket(RELIABLE, 0, 0, <<20 + i>>), 7, 2, i) : i \in 0..1}
    \cup {Fragment(RxPacket(RELIABLE_ORDERED, 1, 0, <<30 + i>>), 8, 2, i) : i \in 0..1}

\* every list of 1..n elements of S
RECURSIVE Lists(_, _)
Lists(S, n) ==
  IF n = 0 THEN {}
  ELSE {<<x>> : x \in S} \cup {Append(l, x) : l \in Lists(S, n - 1), x \in S}

RxDatagrams ==
  {[SequenceNumber |-> s, Packets |-> ps] :
     s \in 0..1, ps \in Lists(RxPackets, MaxPkts) \cup {<<>>}}

\* fragments as DecodeDataPacket hands them over unchecked, all of split id 9:
\* the two of a well-formed group, one whose index is not below its count,
\* one with count 0 and one whose count differs from the others'
FragPackets ==
  {Fragment(RxPacket(RELIABLE, 0, 0, <<40 + i>>), 9, 2, i) : i \in 0..1}
    \cup {Fragment(RxPacket(RELIABLE, 0, 0, <<45>>), 9, 1, 5),
          Fragment(RxPacket(RELIABLE, 0, 0, <<46>>), 9, 0, 0),
          Fragment(RxPacket(RELIABLE, 0, 0, <<47>>), 9, 3, 1)}

\* ordered packets of both ordered tiers: order indexes 0 and 1 on channel 0,
\* order index 0 on channel 1 as a plain packet and as the two fragments of a
\* message (split id 8)
OrdPackets ==
  {RxPacket(RELIABLE_ORDERED, 0, 0, <<10>>),
   RxPacket(RELIABLE_ORDERED_WITH_ACK, 0, 1, <<11>>),
   RxPacket(RELIABLE_ORDERED, 1, 0, <<12>>)}
    \cup {Fragment(RxPacket(RELIABLE_ORDERED, 1, 0, <<30 + i>>), 8, 2, i) : i \in 0..1}

\* datagrams of one fragment or of one ordered packet, and the datagram
\* without packets
FragDatagrams ==
  {[SequenceNumber |-> s, Packets |-> ps] :
     s \in 0..1,
     ps \in {<<p>> : p \in FragPackets \cup OrdPackets} \cup {<<>>}}

\* the few datagrams handed to HandleDataPacket where every operation runs
RxFew ==
  {[SequenceNumber |-> 0, Packets |-> <<RxPacket(RELIABLE_ORDERED, 0, 0, <<10>>)>>]}

----------------------------------------------------------------------------
\* BitStream: the write operations and the reads that take the values back.
\* A uint32 / uint64 is the list of its 16-bit limbs, most significant first
\* (2 / 4 limbs), a string is the list of its bytes, an address is
\* [IP |-> the four octets, Port |-> port].

\* binary.BigEndian.PutUint32 / PutUint64 of the Write operations, on limbs;
\* the little-endian order first
RECURSIVE WriteLimbsLE(_)
WriteLimbsLE(v) ==
  IF v = <<>> THEN <<>>
  ELSE <<ByteAt(Head(v), 0), ByteAt(Head(v), 8)>> \o WriteLimbsLE(Tail(v))

RECURSIVE WriteLimbs(_)
WriteLimbs(v) ==
  IF v = <<>> THEN <<>> ELSE WriteUint16(Head(v)) \o WriteLimbs(Tail(v))

\* BitStream.WriteString: uint16(len(s)) big-endian, then the bytes
WriteString(str) == WriteUint16(Len(str) % U16) \o str

\* BitStream.WriteAddress: nothing is written unless the address is IPv4
WriteAddress(addr) ==
  IF Len(addr.IP) = 4
    THEN <<4>> \o [i \in 1..4 |-> 255 - addr.IP[i]]
              \o <<(addr.Port % U16) % U8, ((addr.Port % U16) \div U8) % U8>>
    ELSE <<>>

\* BitStream.ReadBytes: nothing consumed on failure
ReadBytes(data, off, n) ==
  IF off + n > Len(data) THEN [v |-> <<>>, off |-> off, err |-> TRUE]
  ELSE [v |-> Slice(data, off, off + n) \o <<>>, off |-> off + n, err |-> FALSE]

\* BitStream.ReadUint32 / ReadUint64 (n = 2 / 4 limbs): big-endian, 0 on failure
ReadLimbs(data, off, n) ==
  LET r == ReadBytes(data, off, 2 * n)
  IN  IF r.err THEN [v |-> [i \in 1..n |-> 0], off |-> r.off, err |-> TRUE]
      ELSE [v |-> [i \in 1..n |-> BE16(r.v, 2 * (i - 1))], off |-> r.off, err |-> FALSE]

\* BitStream.ReadString: the length stays consumed when the bytes are missing
ReadString(data, off) ==
  LET length == ReadUint16(data, off)
      bytes  == ReadBytes(data, length.off, length.v)
  IN  IF length.err THEN [v |-> <<>>, off |-> length.off, err |-> TRUE]
      ELSE IF bytes.err THEN [v |-> <<>>, off |-> bytes.off, err |-> TRUE]
      ELSE bytes

NoAddr == [IP |-> <<>>, Port |-> 0]

\* BitStream.ReadAddress: the octets are inverted in place in the stream's
\* data, the port is read with ReadUint16
ReadAddress(data, off) ==
  LET version  == ReadByte(data, off)
      ipBytes  == ReadBytes(data, version.off, 4)
      inverted == [i \in 1..Len(data) |->
                     IF i > version.off /\ i <= version.off + 4
                       THEN 255 - data[i] ELSE data[i]] \o <<>>
      port     == ReadUint16(inverted, ipBytes.off)
  IN  IF version.err
        THEN [v |-> NoAddr, off |-> version.off, err |-> TRUE, data |-> data]
      ELSE IF version.v # 4
        THEN [v |-> NoAddr, off |-> version.off, err |-> TRUE, data |-> data]
      ELSE IF ipBytes.err
        THEN [v |-> NoAddr, off |-> ipBytes.off, err |-> TRUE, data |-> data]
      ELSE IF port.err
        THEN [v |-> NoAddr, off |-> port.off, err |-> TRUE, data |-> inverted]
      ELSE [v |-> [IP |-> Slice(inverted, version.off, version.off + 4), Port |-> port.v],
            off |-> port.off, err |-> FALSE, data |-> inverted]

\* Long byte slices are held in pages of 2^8 bytes: Paged cuts a slice into
\* pages, Flat joins them again
Paged(bytes) ==
  [p \in 1..((Len(bytes) + U8 - 1) \div U8) |->
     Slice(bytes, U8 * (p - 1), Min(U8 * p, Len(bytes)))]

\* the number of bytes in the pages
PagedLen(pages) ==
  IF pages = <<>> THEN 0 ELSE U8 * (Len(pages) - 1) + Len(pages[Len(pages)])

\* (the \o makes the result a tuple)
Flat(pages) ==
  [i \in 1..PagedLen(pages) |-> pages[((i - 1) \div U8) + 1][((i - 1) % U8) + 1]] \o <<>>

\* a value as the history keeps it
Kept(kind, v) == IF kind = "string" THEN Paged(v) ELSE v

StreamFrame == UNCHANGED <<sessVars, outVars, txGhost, rxGhost, codecVars, concVars, fnVars, srvVars>>

\* a Write operation: the bytes are appended to the data
Wrote(kind, v, bytes) ==
  /\ \E d \in {Flat(bsData) \o bytes} : bsData' = Paged(d)
  /\ bsWritten' = Append(bsWritten, [kind |-> kind, v |-> Kept(kind, v)])
  /\ UNCHANGED <<bsOffset, bsGot>>
  /\ StreamFrame

BsWriteByte(v)    == Wrote("byte", v, <<v>>)
BsWriteUint16(v)  == Wrote("uint16", v, WriteUint16(v))
BsWriteUint24(v)  == Wrote("uint24", v, WriteUint24(v))
BsWriteUint32(v)  == Wrote("uint32", v, WriteLimbs(v))
BsWriteUint64(v)  == Wrote("uint64", v, WriteLimbs(v))
BsWriteString(v)  == Wrote("string", v, WriteString(v))
BsWriteAddress(v) == Wrote("addr", v, WriteAddress(v))

\* the kind of the oldest written value not read back yet
NextKind ==
  IF Len(bsGot) < Len(bsWritten) THEN bsWritten[Len(bsGot) + 1].kind ELSE "none"

\* the matching Read operation: it moves the offset and hands back (value, error)
Got(kind, r) ==
  /\ NextKind = kind
  /\ bsOffset' = r.off
  /\ bsGot' = Append(bsGot, [kind |-> kind, v |-> Kept(kind, r.v), err |-> r.err])
  /\ UNCHANGED bsWritten
  /\ StreamFrame

BsReadByte ==
  NextKind = "byte" /\ \E d \in {Flat(bsData)} :
    Got("byte", ReadByte(d, bsOffset)) /\ UNCHANGED bsData
BsReadUint16 ==
  NextKind = "uint16" /\ \E d \in {Flat(bsData)} :
    Got("uint16", ReadUint16(d, bsOffset)) /\ UNCHANGED bsData
BsReadUint24 ==
  NextKind = "uint24" /\ \E d \in {Flat(bsData)} :
    Got("uint24", ReadUint24(d, bsOffset)) /\ UNCHANGED bsData
BsReadUint32 ==
  NextKind = "uint32" /\ \E d \in {Flat(bsData)} :
    Got("uint32", ReadLimbs(d, bsOffset, 2)) /\ UNCHANGED bsData
BsReadUint64 ==
  NextKind = "uint64" /\ \E d \in {Flat(bsData)} :
    Got("uint64", ReadLimbs(d, bsOffset, 4)) /\ UNCHANGED bsData
BsReadString ==
  NextKind = "string" /\ \E d \in {Flat(bsData)} :
    Got("string", ReadString(d, bsOffset)) /\ UNCHANGED bsData
BsReadAddress ==
  NextKind = "addr" /\ \E d \in {Flat(bsData)} :
    \E r \in {ReadAddress(d, bsOffset)} : Got("addr", r) /\ bsData' = Paged(r.data)

----------------------------------------------------------------------------
\* Initial states

NoDp == [SequenceNumber |-> 0, Packets |-> <<>>]

FnOff ==
  /\ fIn = <<>>
  /\ fOut = <<>>

InitCommon ==
  /\ MTU = DEFAULT_MTU_SIZE
  /\ ChannelOrderIndex = EmptyMap
  /\ SendQueue = <<>>
  /\ RecoveryQueue = EmptyMap
  /\ ACKQueue = {}
  /\ NACKQueue = <<>>
  /\ SplitPackets = EmptyMap
  /\ Flags = [f \in FlagNames |-> FALSE]
  /\ SendSeq = 0
  /\ ret = <<>>
  /\ lastOut = <<>>
  /\ crashed = FALSE
  /\ enq = 0
  /\ enqLog = <<>>
  /\ sent = <<>>
  /\ idleTicks = 0
  /\ nacks = 0
  /\ rxCount = 0
  /\ rxDp = NoDp
  /\ rxPre = [coi |-> EmptyMap, seenSeq |-> FALSE, same |-> FALSE, inOrd |-> <<>>,
              lastOrd |-> EmptyMap, frag |-> EmptyMap, sp |-> EmptyMap,
              queued |-> FALSE]
  /\ rxSeqs = {}
  /\ retSrc = <<>>
  /\ inOrd = <<>>
  /\ lastOrd = EmptyMap
  /\ fragSeen = EmptyMap
  /\ rxSince = {}
  /\ bsData = <<>>
  /\ bsOffset = 0
  /\ bsWritten = <<>>
  /\ bsGot = <<>>
  /\ mu = 0
  /\ gpc = [g \in Goroutines |-> "idle"]
  /\ gpkt = [g \in Goroutines |-> ZeroPacket]
  /\ gcalls = 0
  /\ State = STATE_UNCONNECTED
  /\ rmu = {}
  /\ readLog = <<>>
  /\ pending = {}
  /\ running = FALSE
  /\ conn = "nil"
  /\ spc = NotStarted
  /\ lastAcc = NoAccess

CodecOff ==
  /\ cpc = "off"
  /\ cDp = NoDp
  /\ cBytes = <<>>
  /\ cDec = [err |-> TRUE]

\* NewSession
Init ==
  /\ InitCommon
  /\ CodecOff
  /\ FnOff
  /\ MessageIndex = 0
  /\ SequenceNumber = 0
  /\ OrderIndex = 0

----------------------------------------------------------------------------
\* Spec: the sending side. Enqueue, tick, the peer's ACKs and NACKs, StopStreaming.

\* calls so far of the operations that put packets on the SendQueue
TxCalls == enq + nacks

Next ==
  \/ TxCalls < MaxTx /\ \E packet \in EnqPackets : AddToQueue(packet)
  \/ \E ackSeqs \in Orderings(ACKQueue) : Update(ackSeqs)
  \/ \E records \in PeerRecordLists : HandleACK(PeerAckNack(192, records))
  \/ TxCalls < MaxTx /\ \E records \in PeerRecordLists : HandleNACK(PeerAckNack(160, records))
  \/ StopStreaming

Spec == Init /\ [][Next]_vars

----------------------------------------------------------------------------
\* SpecPeer: the sending side with a peer whose ACKs and NACKs carry up to two
\* records.

NextPeer ==
  \/ TxCalls < MaxTx /\ AddToQueue(NewPacket(RELIABLE_ORDERED, 0, <<1>>))
  \/ \E ackSeqs \in Orderings(ACKQueue) : Update(ackSeqs)
  \/ \E records \in PeerRecordPairs : HandleACK(PeerAckNack(192, records))
  \/ TxCalls < MaxTx /\ \E records \in PeerRecordPairs : HandleNACK(PeerAckNack(160, records))

SpecPeer == Init /\ [][NextPeer]_vars

----------------------------------------------------------------------------
\* SpecOwnAck: the sending side acknowledged with packets written by this
\* library's own ACK.Encode.

\* the ACK packets ACK.Encode writes for the sets of datagrams in flight
OwnAcks ==
  {ACKEncode(ackSeqs) : ackSeqs \in UNION {Orderings(S) : S \in SUBSET DOMAIN RecoveryQueue}}

NextOwnAck ==
  \/ TxCalls < MaxTx /\ \E packet \in EnqPackets : AddToQueue(packet)
  \/ \E ackSeqs \in Orderings(ACKQueue) : Update(ackSeqs)
  \/ \E data \in OwnAcks : HandleACK(data)

SpecOwnAck == Init /\ [][NextOwnAck]_vars

----------------------------------------------------------------------------
\* SpecLive: the sending side with a peer that answers every datagram once:
\* with an ACK if the datagram reached it, with a NACK if it missed it. The
\* ticker keeps calling Update; the peer keeps answering what is in flight.

\* the datagrams held whose packets HandleNACK has put back on the send queue:
\* the peer has missed and NACKed them
Missed ==
  {k \in DOMAIN RecoveryQueue :
     \E i \in DOMAIN RecoveryQueue[k].Packets :
       \/ \E j \in DOMAIN SendQueue : SendQueue[j].uid = RecoveryQueue[k].Packets[i].uid
       \/ \E d \in DOMAIN sent :
            /\ sent[d].SequenceNumber > k
            /\ \E j \in DOMAIN sent[d].Packets :
                 sent[d].Packets[j].uid = RecoveryQueue[k].Packets[i].uid}

\* the datagrams the peer has not answered yet
InFlight == DOMAIN RecoveryQueue \ Missed

Tick == \E ackSeqs \in Orderings(ACKQueue) : Update(ackSeqs)

PeerGets(seq) == HandleACK(PeerAckNack(192, <<(<<seq % U24, seq % U24>>)>>))

PeerMisses(seq) == HandleNACK(PeerAckNack(160, <<(<<seq % U24, seq % U24>>)>>))

PeerAnswers ==
  \E seq \in InFlight : PeerGets(seq) \/ (TxCalls < MaxTx /\ PeerMisses(seq))

NextLive ==
  \/ TxCalls < MaxTx /\ \E packet \in EnqPackets : AddToQueue(packet)
  \/ Tick
  \/ \E seq \in InFlight : PeerGets(seq)
  \/ TxCalls < MaxTx /\ \E seq \in InFlight : PeerMisses(seq)

\* weak fairness of the peer, written out: PeerAnswers is enabled exactly
\* while a datagram is in flight
PeerFair == []<>(InFlight = {}) \/ []<><<PeerAnswers>>_vars

SpecLive == Init /\ [][NextLive]_vars /\ WF_vars(Tick) /\ PeerFair

----------------------------------------------------------------------------
\* SpecSplit: the sending side fed with a payload above the safe payload size.

NextSplit ==
  \/ TxCalls < MaxTx /\ \E packet \in SplitEnqPackets : AddToQueue(packet)
  \/ \E ackSeqs \in Orderings(ACKQueue) : Update(ackSeqs)
  \/ \E records \in PeerRecordLists : HandleACK(PeerAckNack(192, records))
  \/ TxCalls < MaxTx /\ \E records \in PeerRecordLists : HandleNACK(PeerAckNack(160, records))

SpecSplit == Init /\ [][NextSplit]_vars

----------------------------------------------------------------------------
\* SpecRx: the receiving side. Datagrams arrive in any order, any number of
\* times; the tick sends the acknowledgements.

NextRx ==
  \/ rxCount < MaxRx /\ \E dp \in RxDatagrams : HandleDataPacket(dp)
  \/ \E ackSeqs \in Orderings(ACKQueue) : Update(ackSeqs)

SpecRx == Init /\ [][NextRx]_vars

----------------------------------------------------------------------------
\* SpecFrag: the receiving side fed datagrams of at most one packet, among
\* them fragments whose split fields no sender of this code would write.

NextFrag ==
  \/ rxCount < MaxRx /\ \E dp \in FragDatagrams : HandleDataPacket(dp)
  \/ \E ackSeqs \in Orderings(ACKQueue) : Update(ackSeqs)

SpecFrag == Init /\ [][NextFrag]_vars

----------------------------------------------------------------------------
\* SpecSession: every operation of the session.

\* calls so far of the operations that can be repeated without end
Calls == enq + rxCount + nacks + SendSeq

NextSession ==
  \/ Calls < SessCalls /\ AddToQueue(NewPacket(RELIABLE_ORDERED, 0, <<1>>))
  \/ \E ackSeqs \in Orderings(ACKQueue) : Update(ackSeqs)
  \/ Calls < SessCalls /\ \E dp \in RxFew : HandleDataPacket(dp)
  \/ \E records \in PeerRecordLists : HandleACK(PeerAckNack(192, records))
  \/ Calls < SessCalls /\ \E records \in PeerRecordLists : HandleNACK(PeerAckNack(160, records))
  \/ StopStreaming
  \/ Calls < SessCalls /\ NextSeq
  \/ \E value \in BOOLEAN : SetHandshakeSent(value)
  \/ \E value \in BOOLEAN : SetStreamingDone(value)
  \/ \E value \in BOOLEAN : SetGameEntrySent(value)
  \/ \E value \in BOOLEAN : SetPostStreamingSent(value)
  \/ \E value \in BOOLEAN : SetJoinResponseSent(value)

SpecSession == Init /\ [][NextSession]_vars

----------------------------------------------------------------------------
\* SpecConc: goroutines call AddToQueue on one session, their statements
\* interleaving as the scheduler decides.

ConcPackets ==
  {NewPacket(UNRELIABLE, 0, <<1>>), NewPacket(RELIABLE, 0, <<1>>),
   NewPacket(RELIABLE_ORDERED, 0, <<1>>)}

NextConc ==
  \E g \in Goroutines :
    \/ gcalls < ConcCalls /\ \E packet \in ConcPackets : CallAddToQueue(g, packet)
    \/ Lock(g)
    \/ StampMessageIndex(g)
    \/ IncMessageIndex(g)
    \/ StampOrderIndex(g)
    \/ IncOrderIndex(g)
    \/ AppendToQueue(g)
    \/ Unlock(g)

SpecConc == Init /\ [][NextConc]_vars

----------------------------------------------------------------------------
\* SpecCodec: a datagram is encoded with DataPacket.Encode and the bytes are
\* handed to DecodeDataPacket.

\* field values that fill their wire width unevenly, so that a byte-order or
\* width mistake shows
CodecPacket(r, split, v) ==
  [Reliability |-> r,
   MessageIndex |-> IF v = 0 THEN 0 ELSE 1193046,      \* 0x123456
   OrderIndex |-> IF v = 0 THEN 1 ELSE 66051,          \* 0x010203
   OrderChannel |-> IF v = 0 THEN 0 ELSE 5,
   Split |-> split,
   SplitCount |-> IF split THEN 2 + v ELSE 0,
   SplitID |-> IF split THEN 258 * v + 1 ELSE 0,       \* 0x0102 + 1
   SplitIndex |-> IF split THEN 1 ELSE 0,
   Payload |-> IF v = 0 THEN <<170>> ELSE <<170, 187, 204>>,
   uid |-> 0]

CodecPackets == {CodecPacket(r, split, v) : r \in 0..7, split \in BOOLEAN, v \in 0..1}

CodecDatagrams ==
  {[SequenceNumber |-> s, Packets |-> <<p>>] : s \in {0, U24 - 1}, p \in CodecPackets}
    \cup {[SequenceNumber |-> 1, Packets |-> ps] :
            ps \in {l \in Lists({CodecPacket(r, FALSE, 0) : r \in {UNRELIABLE, RELIABLE_ORDERED}},
                                 MaxPkts) : Len(l) > 1}}
    \cup {[SequenceNumber |-> 2, Packets |-> <<>>]}

InitCodec ==
  /\ InitCommon
  /\ FnOff
  /\ MessageIndex = 0
  /\ SequenceNumber = 0
  /\ OrderIndex = 0
  /\ cpc = "start"
  /\ cDp \in CodecDatagrams
  /\ cBytes = <<>>
  /\ cDec = [err |-> TRUE]

CodecEncode ==
  /\ cpc = "start"
  /\ cBytes' = Encode(cDp)
  /\ cpc' = "encoded"
  /\ UNCHANGED <<sessVars, outVars, txGhost, rxGhost, cDp, cDec, concVars, streamVars, fnVars, srvVars>>

CodecDecode ==
  /\ cpc = "encoded"
  /\ cDec' = DecodeDataPacket(cBytes)
  /\ cpc' = "decoded"
  /\ UNCHANGED <<sessVars, outVars, txGhost, rxGhost, cDp, cBytes, concVars, streamVars, fnVars, srvVars>>

NextCodec == CodecEncode \/ CodecDecode

SpecCodec == InitCodec /\ [][NextCodec]_vars

----------------------------------------------------------------------------
\* SpecStream: values are written to one empty BitStream and read back with
\* the matching Read operations, oldest first. The long string is written to
\* the fresh stream only, and a stream that holds it takes no further write.

Bytes    == {0, 66, 255}
Uint16s  == {0, 1234, 65535}
Uint24s  == {0, 1193046, U24 - 1}
Uint32s  == {<<0, 0>>, <<8, 43602>>, <<65535, 65535>>}
Uint64s  == {<<0, 0, 0, 0>>, <<291, 17767, 35243, 52719>>, <<65535, 65535, 65535, 65535>>}
HelloWorld == <<72, 101, 108, 108, 111, 32, 87, 111, 114, 108, 100>>
\* the shortest string whose length does not fit the uint16 prefix
LongString == [i \in 1..U16 |-> 97] \o <<>>
Strings  == {<<>>, HelloWorld}
Addresses ==
  {[IP |-> <<192, 168, 1, 100>>, Port |-> 7777],
   [IP |-> <<127, 0, 0, 1>>, Port |-> 257],
   [IP |-> <<255, 255, 255, 255>>, Port |-> 65535]}

NextStream ==
  \/ bsWritten = <<>> /\ BsWriteString(LongString)
  \/ /\ Len(bsWritten) < MaxWrites
     /\ \A i \in 1..Len(bsWritten) :
          bsWritten[i].kind = "string" => PagedLen(bsWritten[i].v) < U16
     /\ \/ \E v \in Bytes : BsWriteByte(v)
        \/ \E v \in Uint16s : BsWriteUint16(v)
        \/ \E v \in Uint24s : BsWriteUint24(v)
        \/ \E v \in Uint32s : BsWriteUint32(v)
        \/ \E v \in Uint64s : BsWriteUint64(v)
        \/ \E v \in Strings : BsWriteString(v)
        \/ \E v \in Addresses : BsWriteAddress(v)
  \/ BsReadByte \/ BsReadUint16 \/ BsReadUint24 \/ BsReadUint32
  \/ BsReadUint64 \/ BsReadString \/ BsReadAddress

SpecStream == Init /\ [][NextStream]_vars

----------------------------------------------------------------------------
\* SpecAck: one list of sequence numbers is encoded as an ACK and as a NACK.

\* sequence numbers that fill the three bytes unevenly, and one above 2^24
AckSeqs == {0, 1, 1193046, U24 - 1, U24 + 5}

SeqLists == {<<>>} \cup Lists(AckSeqs, MaxSeqs)

NotCalled == <<>>

InitAck ==
  /\ InitCommon
  /\ CodecOff
  /\ MessageIndex = 0
  /\ SequenceNumber = 0
  /\ OrderIndex = 0
  /\ fIn \in SeqLists
  /\ fOut = [ACK |-> NotCalled, NACK |-> NotCalled]

FnFrame == UNCHANGED <<sessVars, outVars, txGhost, rxGhost, codecVars, concVars, streamVars, fIn, srvVars>>

CallACKEncode ==
  /\ fOut.ACK = NotCalled
  /\ fOut' = [fOut EXCEPT !.ACK = ACKEncode(fIn)]
  /\ FnFrame

CallNACKEncode ==
  /\ fOut.NACK = NotCalled
  /\ fOut' = [fOut EXCEPT !.NACK = NACKEncode(fIn)]
  /\ FnFrame

NextAck == CallACKEncode \/ CallNACKEncode

SpecAck == InitAck /\ [][NextAck]_vars

----------------------------------------------------------------------------
\* SpecPayload: GetSafePayloadSize is called once, with any uint16 MTU.

NoResult == -1

InitPayload ==
  /\ InitCommon
  /\ CodecOff
  /\ MessageIndex = 0
  /\ SequenceNumber = 0
  /\ OrderIndex = 0
  /\ fIn \in [mtu : 0..(U16 - 1), isOrdered : BOOLEAN]
  /\ fOut = NoResult

CallGetSafePayloadSize ==
  /\ fOut = NoResult
  /\ fOut' = GetSafePayloadSize(fIn.mtu, fIn.isOrdered)
  /\ FnFrame

NextPayload == CallGetSafePayloadSize

SpecPayload == InitPayload /\ [][NextPayload]_vars

----------------------------------------------------------------------------
\* Properties of the wire codec (SpecCodec)

\* the fields of a decoded packet that its reliability tier carries on the wire
\* agree with the packet that was encoded
PacketAgrees(a, b) ==
  /\ b.Reliability = a.Reliability
  /\ IsReliable(a.Reliability) => b.MessageIndex = a.MessageIndex
  /\ (IsSequenced(a.Reliability) \/ IsOrdered(a.Reliability)) => b.OrderIndex = a.OrderIndex
  /\ IsOrdered(a.Reliability) => b.OrderChannel = a.OrderChannel
  /\ b.Split = a.Split
  /\ a.Split => /\ b.SplitCount = a.SplitCount
                /\ b.SplitID = a.SplitID
                /\ b.SplitIndex = a.SplitIndex
  /\ b.Payload = a.Payload

\* C1: for every datagram d, DecodeDataPacket(d.Encode()) succeeds and returns
\* the same sequence number and, packet by packet in the same order, the same
\* reliability, message index (when reliable), order index (when sequenced or
\* ordered), order channel (when ordered), split fields (when split) and payload.
C1_RoundTrip ==
  cpc = "decoded" =>
    /\ ~cDec.err
    /\ cDec.SequenceNumber = cDp.SequenceNumber
    /\ Len(cDec.Packets) = Len(cDp.Packets)
    /\ \A i \in 1..Len(cDp.Packets) : PacketAgrees(cDp.Packets[i], cDec.Packets[i])

----------------------------------------------------------------------------
\* Properties of the receiving side (SpecRx). ret, retSrc, rxPre, inOrd,
\* fragSeen, ChannelOrderIndex and SplitPackets change in HandleDataPacket
\* only, so each predicate speaks of the last HandleDataPacket call.

\* positions in the returned slice that carry an ordered payload
OrderedReturns == {i \in 1..Len(retSrc) : IsOrdered(retSrc[i].encap.Reliability)}

\* C2: on each order channel the Reliable Ordered payloads returned by
\* successive HandleDataPacket calls have strictly increasing order indexes,
\* whatever order the datagrams arrive in.
C2_OrderedDelivery ==
  \A i \in OrderedReturns :
    LET e == retSrc[i].encap
    IN  /\ Has(rxPre.lastOrd, e.OrderChannel) => e.OrderIndex > rxPre.lastOrd[e.OrderChannel]
        /\ \A j \in OrderedReturns :
             (j < i /\ retSrc[j].encap.OrderChannel = e.OrderChannel)
               => retSrc[j].encap.OrderIndex < e.OrderIndex

\* C3: when HandleDataPacket is called a second time with the same datagram,
\* it returns none of the ordered payloads the first call found in order,
\* finds none in order itself, and leaves every channel's expected order
\* index unchanged.
C3_SameDatagramTwice ==
  rxPre.same =>
    /\ \A i \in OrderedReturns :
         \A k \in 1..Len(rxPre.inOrd) : retSrc[i].encap # rxPre.inOrd[k]
    /\ inOrd = <<>>
    /\ ChannelOrderIndex = rxPre.coi

\* a set of fragments is a whole group: one split count n, indexes 0..n-1
Complete(F) ==
  /\ F # {}
  /\ \A f, g \in F : f.SplitCount = g.SplitCount
  /\ \A f \in F : {g.SplitIndex : g \in F} = 0..(f.SplitCount - 1)

\* the fragment payloads of a whole group in increasing split index order
Assembled(F) ==
  LET n == (CHOOSE f \in F : TRUE).SplitCount
  IN  Concat([i \in 1..n |-> (CHOOSE f \in F : f.SplitIndex = i - 1).Payload])

\* positions in the returned slice that carry a packet assembled for split id g
SplitReturns(g) ==
  {i \in 1..Len(retSrc) : retSrc[i].kind = "split" /\ retSrc[i].encap.SplitID = g}

\* C4: the call that brings the last missing fragment of a split id returns
\* exactly one packet for it, the concatenation of the fragment payloads in
\* increasing split index order, and removes the group from SplitPackets
\* (fragments that follow in the same datagram may start the id afresh, so
\* what SplitPackets holds for the id afterwards is not a whole group);
\* while fragments are missing nothing is returned for the group.
C4_SplitReassembly ==
  \A g \in DOMAIN fragSeen :
    /\ (Complete(fragSeen[g]) /\ ~(Has(rxPre.frag, g) /\ Complete(rxPre.frag[g])))
         => /\ Cardinality(SplitReturns(g)) = 1
            /\ \A i \in SplitReturns(g) : retSrc[i].bytes = Assembled(fragSeen[g])
            /\ Has(SplitPackets, g) =>
                 DOMAIN SplitPackets[g] # {f.SplitIndex : f \in fragSeen[g]}
    /\ ~Complete(fragSeen[g]) => SplitReturns(g) = {}

\* C5: a datagram whose sequence number was received before delivers
\* nothing, whatever the reliability of its packets, and its sequence number
\* is queued for acknowledgement.
C5_DuplicateDatagram ==
  rxPre.seenSeq => (ret = <<>> /\ rxPre.queued)

\* C12: every sequence number in ACKQueue is that of a datagram with at
\* least one encapsulated packet handed to HandleDataPacket since the last
\* Update; a datagram without packets adds nothing to ACKQueue.
C12_AckQueueSource == ACKQueue \subseteq rxSince

\* an empty datagram with sequence number 0 was the last one handed in, a
\* non-empty one with sequence number 1 waits for its acknowledgement
C12_Witness ==
  /\ rxCount >= 2
  /\ rxDp = [SequenceNumber |-> 0, Packets |-> <<>>]
  /\ ACKQueue = {1}

\* fragment i of the Reliable Ordered message of RxPackets: split id 8, two
\* fragments, order index 0 on channel 1
OrdFrag(i) == Fragment(RxPacket(RELIABLE_ORDERED, 1, 0, <<30 + i>>), 8, 2, i)

\* the last HandleDataPacket call took in the last fragment of the message,
\* the fragments having arrived in order on a session that expected order
\* index 0 on the channel: both in the first datagram, or fragment 0 in order
\* in the call before and fragment 1 now
OrdFragsIngested ==
  \/ rxCount = 1 /\ rxDp.Packets = <<OrdFrag(0), OrdFrag(1)>>
  \/ /\ rxCount = 2
     /\ rxPre.inOrd = <<OrdFrag(0)>>
     /\ rxDp.Packets = <<OrdFrag(1)>>

\* C20: a Reliable Ordered message split into N >= 2 fragments that all carry
\* the message's one order index is reassembled and delivered exactly once
\* when all N fragments have been ingested in order on a session expecting
\* that order index.
C20_OrderedSplitDelivered ==
  OrdFragsIngested =>
    /\ Cardinality(SplitReturns(8)) = 1
    /\ \A i \in SplitReturns(8) : retSrc[i].bytes = <<30, 31>>

Listed(data) ==
  [k \in 1..((Len(data) - 3) \div 3) |->
     data[3 * k + 1] + data[3 * k + 2] * U8 + data[3 * k + 3] * U16]

\* C27: each Update emits at most one ACK packet, which lists every member of
\* ACKQueue exactly once, and at most one NACK packet, which lists NACKQueue;
\* when Update returns both queues are empty, so a sequence number is
\* acknowledged in one ACK packet only unless it is received again.
C27_OneAckPerUpdate ==
  [][\A ackSeqs \in Orderings(ACKQueue) :
       Update(ackSeqs) =>
         LET acks  == {i \in DOMAIN lastOut' : lastOut'[i][1] = 192}
             nacksOut == {i \in DOMAIN lastOut' : lastOut'[i][1] = 160}
         IN  /\ Cardinality(acks) = (IF ACKQueue = {} THEN 0 ELSE 1)
             /\ \A i \in acks :
                  /\ Len(Listed(lastOut'[i])) = Cardinality(ACKQueue)
                  /\ {Listed(lastOut'[i])[k] : k \in DOMAIN Listed(lastOut'[i])} = ACKQueue
                  /\ lastOut'[i][2] + lastOut'[i][3] * U8 = Cardinality(ACKQueue)
             /\ Cardinality(nacksOut) = (IF NACKQueue = <<>> THEN 0 ELSE 1)
             /\ \A i \in nacksOut : Listed(lastOut'[i]) = NACKQueue
             /\ ACKQueue' = {}
             /\ NACKQueue' = <<>>]_vars

\* an Update has just sent one ACK naming the two datagrams received before it
C27_Witness ==
  /\ rxCount = 2
  /\ ACKQueue = {}
  /\ rxSince = {}
  /\ Len(lastOut) = 1
  /\ lastOut[1][1] = 192
  /\ {Listed(lastOut[1])[k] : k \in DOMAIN Listed(lastOut[1])} = {0, 1}

\* C30: loss is detected from gaps in the sequence numbers: once
\* HandleDataPacket has received a datagram with sequence number s while a
\* sequence number below s has not been received, the missing numbers are in
\* NACKQueue, from where the next Update sends them in a NACK. (A sequence
\* number still in ACKQueue was received since the last Update, which is the
\* only operation that empties NACKQueue.)
C30_GapQueuesNack ==
  \A seq \in ACKQueue :
    \A missing \in 0..(seq - 1) :
      missing \notin rxSeqs => \E i \in DOMAIN NACKQueue : NACKQueue[i] = missing

\* C19: HandleDataPacket completes without a runtime panic for every datagram
\* DecodeDataPacket can return, also for fragments whose split index is not
\* below the split count, whose split count is 0 or differs from that of
\* earlier fragments of the split id.
C19_NoPanic == ~crashed

\* C22: when the last call handed a fragment to a split group that then holds
\* more fragments than the fragment's split_count, or whose buffered fragments
\* carry another split_count, the whole group is discarded: nothing of it
\* stays in SplitPackets and no payload is delivered for it.
C22_MismatchDiscardsGroup ==
  (rxCount > 0 /\ ~crashed /\ Len(rxDp.Packets) = 1 /\ rxDp.Packets[1].Split) =>
    LET p      == rxDp.Packets[1]
        before == IF Has(rxPre.sp, p.SplitID) THEN rxPre.sp[p.SplitID] ELSE EmptyMap
        differs == \E i \in DOMAIN before : before[i].SplitCount # p.SplitCount
        tooMany == Cardinality(DOMAIN before \cup {p.SplitIndex}) > p.SplitCount
        reached == ~(IsOrdered(p.Reliability)
                       /\ p.OrderIndex < Expected(rxPre.coi, p.OrderChannel))
    IN  (reached /\ (differs \/ tooMany)) =>
          (~Has(SplitPackets, p.SplitID) /\ ret = <<>>)

----------------------------------------------------------------------------
\* Properties of the sending side (Spec, SpecSplit)

\* C23: HandleACK on a packet of records (flag byte, start, end as 24-bit
\* little-endian) removes the recovery entry of every sequence number in
\* start..end, both ends included, of every record, removes and alters no
\* other entry, and HandleACK on the same packet a second time finds nothing
\* left to change. (In every state, for every packet the peer may send: the
\* recovery queue HandleACK leaves, and the one a second call leaves.)
C23_AckRemovesRanges ==
  ~crashed =>
    \A records \in PeerRecordPairs :
      LET data == PeerAckNack(192, records)
          once == Acked(RecoveryQueue, data)
      IN  /\ DOMAIN once =
               {k \in DOMAIN RecoveryQueue :
                  ~\E i \in DOMAIN records : records[i][1] <= k /\ k <= records[i][2]}
          /\ \A k \in DOMAIN once : once[k] = RecoveryQueue[k]
          /\ Acked(once, data) = once

\* three datagrams were sent and only the middle one is still held: the
\* entries around it were acknowledged
C23_Witness ==
  /\ Len(sent) = 3
  /\ DOMAIN RecoveryQueue = {1}
  /\ RecoveryQueue[1] = sent[2]

\* the packets of the datagrams still held among start..end of one record, in
\* ascending sequence number and each datagram's packet order
Held(record) ==
  Concat([k \in 1..(record[2] - record[1] + 1) |->
            IF Has(RecoveryQueue, record[1] + k - 1)
              THEN RecoveryQueue[record[1] + k - 1].Packets ELSE <<>>])

\* C25: HandleNACK appends, for each NACKed sequence number held in the
\* recovery queue, every encapsulated packet of that datagram to the end of
\* the send queue in the datagram's packet order, does nothing for a
\* sequence number not held, and leaves the recovery queue, SequenceNumber,
\* MessageIndex and the ACK and NACK queues as they are. (Only a step that
\* leaves the log of enqueued packets, the log of emitted datagrams and the
\* recovery queue alone can be a HandleNACK step.)
C25_NackRequeues ==
  [][(enq' = enq /\ sent' = sent /\ RecoveryQueue' = RecoveryQueue) =>
       \A records \in PeerRecordPairs :
         HandleNACK(PeerAckNack(160, records)) =>
           /\ SendQueue' = SendQueue \o Concat([i \in 1..Len(records) |-> Held(records[i])])
           /\ UNCHANGED <<RecoveryQueue, SequenceNumber, MessageIndex, ACKQueue, NACKQueue>>]_vars

\* a datagram was NACKed while a second packet was waiting: its packet
\* follows that one in the send queue and the datagram is still held
C25_Witness ==
  /\ nacks = 1
  /\ Has(RecoveryQueue, 0)
  /\ Len(SendQueue) = 2
  /\ SendQueue[1] \notin {RecoveryQueue[0].Packets[i] : i \in DOMAIN RecoveryQueue[0].Packets}
  /\ <<SendQueue[2]>> = RecoveryQueue[0].Packets

\* C24: an ACK packet written by ACK.Encode for a set S of sequence numbers,
\* handed to HandleACK of a session whose recovery queue holds entries for S
\* and for others, removes exactly the entries of S and keeps all others.
\* (In every state, for every subset S of the entries held and every order
\* ACK.Encode may list it in: the recovery queue HandleACK leaves.)
C24_OwnAckUnderstood ==
  ~crashed =>
    \A S \in SUBSET DOMAIN RecoveryQueue :
      \A ackSeqs \in Orderings(S) :
        Acked(RecoveryQueue, ACKEncode(ackSeqs)) = Drop(RecoveryQueue, S)

\* C26: with a peer that ACKs every datagram that reaches it and NACKs every
\* datagram it misses, with the ticks going on and no further packet
\* enqueued, the recovery queue eventually becomes empty: whenever a datagram
\* is held, a state with nothing held follows.
C26_RecoveryDrains == (DOMAIN RecoveryQueue # {}) ~> (DOMAIN RecoveryQueue = {})

\* C6: a datagram waiting in the RecoveryQueue is sent again by the tick once
\* the retry delay has passed without an ACK, NACK or other datagram: the
\* ticks that do nothing for it never outnumber those of one retry delay.
C6_TimeoutRetransmit == idleTicks <= RetryTicks

\* the packets put on the SendQueue by AddToQueue, in call order
Enqueued == Concat([i \in 1..Len(enqLog) |-> enqLog[i].out])

\* C7: AddToQueue stamps an ordered packet on channel c with the number of
\* ordered packets enqueued on channel c before it, every channel counting
\* from 0 on its own.
C7_PerChannelOrderIndex ==
  \A i \in 1..Len(Enqueued) :
    IsOrdered(Enqueued[i].Reliability) =>
      Enqueued[i].OrderIndex =
        Cardinality({j \in 1..(i - 1) : /\ IsOrdered(Enqueued[j].Reliability)
                                        /\ Enqueued[j].OrderChannel = Enqueued[i].OrderChannel})

\* the packets of the emitted datagrams, by datagram and position inside it
Emitted == Concat([i \in 1..Len(sent) |-> sent[i].Packets])

\* positions at which the packet of the AddToQueue call u was emitted
Appearances(u) == {i \in 1..Len(Emitted) : Emitted[i].uid = u}

\* C8 as stated: if A was enqueued before B on the same channel, no
\* appearance of A in the emitted datagrams follows an appearance of B.
C8_NeverAfter ==
  \A i, j \in 1..Len(Emitted) :
    (i < j /\ Emitted[i].OrderChannel = Emitted[j].OrderChannel)
      => Emitted[i].uid <= Emitted[j].uid

\* C8: if A was enqueued before B on the same channel and both are emitted,
\* the first appearance of A precedes the first appearance of B, whatever the
\* batching and the HandleACK / HandleNACK calls in between.
C8_FirstAppearanceOrder ==
  \A i, j \in 1..Len(Emitted) :
    (/\ Emitted[i].uid < Emitted[j].uid
     /\ Emitted[i].OrderChannel = Emitted[j].OrderChannel
     /\ j = SetMin(Appearances(Emitted[j].uid)))
      => SetMin(Appearances(Emitted[i].uid)) < j

\* A and B of one channel both emitted, A a second time after a NACK
C8_Witness ==
  \E i, j \in 1..Len(Emitted) :
    /\ Emitted[i].uid < Emitted[j].uid
    /\ Emitted[i].OrderChannel = Emitted[j].OrderChannel
    /\ Cardinality(Appearances(Emitted[i].uid)) > 1
    /\ nacks > 0

\* C28: every datagram Update emits holds at least 1 and at most 120
\* encapsulated packets, taken from the head of the send queue in queue order,
\* and its encoded length does not exceed the session MTU: draining stops
\* only at 120 packets or before a packet that would overflow the MTU, and the
\* packets not drained stay in the send queue in order.
C28_DatagramFitsMTU ==
  [][\A ackSeqs \in Orderings(ACKQueue) :
       (Update(ackSeqs) /\ Len(SendQueue) > 0) =>
         LET dp == sent'[Len(sent')]
             n  == Len(dp.Packets)
         IN  /\ Len(sent') = Len(sent) + 1
             /\ 1 <= n /\ n <= MaxBatch
             /\ dp.Packets = SubSeq(SendQueue, 1, n)
             /\ SendQueue' = SubSeq(SendQueue, n + 1, Len(SendQueue))
             /\ Len(Encode(dp)) <= MTU
             /\ (n < MaxBatch /\ SendQueue' # <<>>) =>
                  Len(Encode([dp EXCEPT !.Packets = Append(@, Head(SendQueue'))])) > MTU]_vars

\* C29: in every reachable state every key of the recovery queue is strictly
\* below the session's SequenceNumber, and every datagram Update emits is
\* stored in the recovery queue under the sequence number it was sent with.
\* (Stated of the state every step leads to; the recovery queue of a new
\* session is empty.)
C29_RecoveryKeysBelowNext ==
  [][/\ \A k \in DOMAIN RecoveryQueue' :
          k < SequenceNumber' /\ RecoveryQueue'[k].SequenceNumber = k
     /\ Len(sent') > Len(sent) =>
          LET dp == sent'[Len(sent')]
          IN  /\ dp.SequenceNumber = SequenceNumber
              /\ Has(RecoveryQueue', dp.SequenceNumber)
              /\ RecoveryQueue'[dp.SequenceNumber] = dp]_vars

\* three datagrams were sent, the middle one was acknowledged, the other two
\* are held under the numbers they were sent with
C29_Witness ==
  /\ SequenceNumber = 3
  /\ DOMAIN RecoveryQueue = {0, 2}
  /\ RecoveryQueue[0] = sent[1]
  /\ RecoveryQueue[2] = sent[3]

\* C9: an AddToQueue call whose payload is larger than the safe payload size
\* puts N = ceil(size / chunk) fragments on the SendQueue, each with Split
\* set, one split id, split count N, split indexes 0..N-1 and a payload no
\* larger than the safe payload size.
C9_OversizeSplit ==
  \A c \in 1..Len(enqLog) :
    LET size  == Len(enqLog[c].in.Payload)
        chunk == GetSafePayloadSize(MTU, IsOrdered(enqLog[c].in.Reliability))
        out   == enqLog[c].out
        N     == (size + chunk - 1) \div chunk
    IN  (chunk > 0 /\ size > chunk) =>
          /\ Len(out) = N
          /\ \A k \in 1..Len(out) :
               /\ out[k].Split
               /\ out[k].SplitCount = N
               /\ out[k].SplitIndex = k - 1
               /\ out[k].SplitID = out[1].SplitID
               /\ Len(out[k].Payload) <= chunk

----------------------------------------------------------------------------
\* Properties of the session counters (SpecSession)

\* C10: no operation of the session decreases or resets SequenceNumber,
\* MessageIndex or the outbound order index.
C10_CountersNeverDecrease ==
  [][/\ SequenceNumber' >= SequenceNumber
     /\ MessageIndex' >= MessageIndex
     /\ OrderIndex' >= OrderIndex]_vars

\* the counters have advanced, a datagram was re-sent after a NACK, one was
\* received, a flag is set and the queue is empty again
C10_Witness ==
  /\ SequenceNumber >= 2
  /\ MessageIndex >= 1
  /\ OrderIndex >= 1
  /\ nacks >= 1
  /\ rxCount >= 1
  /\ Flags["StreamingDone"]
  /\ SendQueue = <<>>

----------------------------------------------------------------------------
\* Properties of concurrent AddToQueue calls (SpecConc)

\* C11: the reliable packets on the SendQueue carry the message indexes
\* 0, 1, 2, ... in the order the AddToQueue calls took effect, also when
\* goroutines call it concurrently: none twice, none skipped, and packets of
\* the unreliable tiers take none.
C11_ConsecutiveMessageIndex ==
  \A i \in 1..Len(Enqueued) :
    IF IsReliable(Enqueued[i].Reliability)
      THEN Enqueued[i].MessageIndex =
             Cardinality({j \in 1..(i - 1) : IsReliable(Enqueued[j].Reliability)})
      ELSE Enqueued[i].MessageIndex = 0

\* a goroutine waits for the mutex another holds, a reliable packet of a
\* third call being on the queue already
C11_Witness ==
  /\ \E g, h \in Goroutines : g # h /\ gpc[g] = "lock" /\ mu = h /\ gpc[h] = "msg++"
  /\ \E i \in 1..Len(Enqueued) : IsReliable(Enqueued[i].Reliability)


----------------------------------------------------------------------------
\* Properties of the BitStream (SpecStream)

\* the i-th Read handed back the i-th written value, without error
ReadBack(i) ==
  bsGot[i] = [kind |-> bsWritten[i].kind, v |-> bsWritten[i].v, err |-> FALSE]

\* only WriteByte, WriteUint16, WriteUint32, WriteUint64, WriteUint24 and
\* WriteString were called
OnlyPrimitives == \A i \in 1..Len(bsWritten) : bsWritten[i].kind # "addr"

\* every written string is shorter than 2^16 bytes
ShortStrings ==
  \A i \in 1..Len(bsWritten) :
    bsWritten[i].kind = "string" => PagedLen(bsWritten[i].v) < U16

\* C13: an IPv4 address written with WriteAddress and read with ReadAddress
\* comes back with the same IP and the same port.
C13_AddressRoundTrip ==
  ShortStrings =>
    \A i \in 1..Len(bsGot) : bsWritten[i].kind = "addr" => ReadBack(i)

\* C14 as stated: whatever values WriteByte, WriteUint16, WriteUint32,
\* WriteUint64, WriteUint24 (values below 2^24) and WriteString wrote, the
\* matching Read operations in the same order return exactly those values,
\* without error.
C14_RoundTrip ==
  OnlyPrimitives => \A i \in 1..Len(bsGot) : ReadBack(i)

\* C14, amended: the same, for strings shorter than 2^16 bytes.
C14_RoundTripShortStrings ==
  (OnlyPrimitives /\ ShortStrings) => \A i \in 1..Len(bsGot) : ReadBack(i)

C14_Witness ==
  /\ Len(bsWritten) = 2
  /\ bsWritten[1].kind = "string" /\ bsWritten[1].v = Paged(HelloWorld)
  /\ bsWritten[2].kind = "uint32" /\ bsWritten[2].v = <<8, 43602>>
  /\ Len(bsGot) = 2
  /\ bsOffset = PagedLen(bsData)


----------------------------------------------------------------------------
\* Properties of ACK.Encode / NACK.Encode (SpecAck)

----------------------------------------------------------------------------
\* Properties of DataPacket.Encode and GetSize (SpecCodec)

RECURSIVE SizeSum(_)
SizeSum(ps) == IF ps = <<>> THEN 0 ELSE GetSize(Head(ps)) + SizeSum(Tail(ps))

\* C16: every encoded datagram starts with the flag byte 0x84, then the send
\* sequence number as 3 little-endian bytes, then the encapsulated packets in
\* list order.
C16_DatagramLayout ==
  cpc # "start" =>
    /\ cBytes[1] = 132
    /\ cBytes[2] = cDp.SequenceNumber % 256
    /\ cBytes[3] = (cDp.SequenceNumber \div 256) % 256
    /\ cBytes[4] = (cDp.SequenceNumber \div 65536) % 256
    /\ Slice(cBytes, 4, Len(cBytes)) = EncodePackets(cDp.Packets)

\* C17: GetSize is the number of bytes DataPacket.Encode emits for the packet,
\* whatever the reliability tier, split or not, so the encoded datagram is 4
\* bytes plus the sum of GetSize over its packets.
C17_GetSizeExact ==
  cpc # "start" =>
    /\ Len(cBytes) = 4 + SizeSum(cDp.Packets)
    /\ \A i \in 1..Len(cDp.Packets) :
         GetSize(cDp.Packets[i]) = Len(EncodeEncap(cDp.Packets[i]))

C17_Witness ==
  /\ cpc = "encoded"
  /\ cDp.Packets = <<CodecPacket(RELIABLE_ORDERED, TRUE, 1)>>
  /\ Len(cBytes) = 27

----------------------------------------------------------------------------
\* Properties of GetSafePayloadSize (SpecPayload)

\* C18: for every MTU 0..65535 GetSafePayloadSize(mtu, ordered) is
\* max(0, mtu - 60 - 4 - (11 if ordered else 7)); for the default MTU 576
\* that is 501 bytes when ordered and 505 bytes when not.
C18_SafePayloadSize ==
  fOut # NoResult =>
    LET room == fIn.mtu - 60 - 4 - (IF fIn.isOrdered THEN 11 ELSE 7)
    IN  /\ fOut = (IF room > 0 THEN room ELSE 0)
        /\ (fIn.mtu = 576 /\ fIn.isOrdered) => fOut = 501
        /\ (fIn.mtu = 576 /\ ~fIn.isOrdered) => fOut = 505

C18_Witness ==
  /\ fIn = [mtu |-> 576, isOrdered |-> TRUE]
  /\ fOut = 501

----------------------------------------------------------------------------
\* SpecState: the goroutines of the server touching Session.State. A packet
\* goroutine runs handleAuthKey, any goroutine may call BroadcastMessage, and
\* CanStream is the accessor of the protocol package.

StateFrame ==
  UNCHANGED <<sessVars, outVars, txGhost, rxGhost, codecVars, mu, gpkt, gcalls,
              streamVars, fnVars, lsnVars, runVars>>

\* goroutine g holds Session.Mu, for writing or for reading
HoldsMu(g) == mu = g \/ g \in rmu

\* Server.handleGamePacket, case 0x25: the goroutine enters handleAuthKey
CallHandleAuthKey(g) ==
  /\ gpc[g] = "idle"
  /\ gpc' = At1(gpc, g, "authKey")
  /\ UNCHANGED <<State, rmu, lastAcc>>
  /\ StateFrame

\* Server.handleAuthKey: session.State = protocol.STATE_READY. The function
\* takes no lock.
HandleAuthKey(g) ==
  /\ gpc[g] = "authKey"
  /\ State' = STATE_READY
  /\ lastAcc' = [op |-> "write", by |-> g, locked |-> mu = g, got |-> FALSE]
  /\ gpc' = At1(gpc, g, "idle")
  /\ UNCHANGED rmu
  /\ StateFrame

\* Server.BroadcastMessage: sessions := s.raknet.GetSessions()
CallBroadcastMessage(g) ==
  /\ gpc[g] = "idle"
  /\ gpc' = At1(gpc, g, "broadcast")
  /\ UNCHANGED <<State, rmu, lastAcc>>
  /\ StateFrame

\* Server.BroadcastMessage, for the one session of the model:
\* if session.State == protocol.STATE_CONNECTED. The function takes no lock.
BroadcastMessage(g) ==
  /\ gpc[g] = "broadcast"
  /\ lastAcc' = [op |-> "read", by |-> g, locked |-> HoldsMu(g), got |-> State = STATE_CONNECTED]
  /\ gpc' = At1(gpc, g, "idle")
  /\ UNCHANGED <<rmu, State>>
  /\ StateFrame

\* Session.CanStream: s.Mu.RLock()
CanStreamRLock(g) ==
  /\ gpc[g] = "idle"
  /\ mu = 0
  /\ rmu' = rmu \cup {g}
  /\ gpc' = At1(gpc, g, "canStream")
  /\ UNCHANGED <<State, lastAcc>>
  /\ StateFrame

\* Session.CanStream: return s.State == STATE_IN_GAME
CanStreamRead(g) ==
  /\ gpc[g] = "canStream"
  /\ lastAcc' = [op |-> "read", by |-> g, locked |-> HoldsMu(g), got |-> State = STATE_IN_GAME]
  /\ gpc' = At1(gpc, g, "runlock")
  /\ UNCHANGED <<State, rmu>>
  /\ StateFrame

\* Session.CanStream: defer s.Mu.RUnlock()
CanStreamRUnlock(g) ==
  /\ gpc[g] = "runlock"
  /\ rmu' = rmu \ {g}
  /\ gpc' = At1(gpc, g, "idle")
  /\ UNCHANGED <<State, lastAcc>>
  /\ StateFrame

NextState ==
  \E g \in Goroutines :
    \/ CallHandleAuthKey(g)
    \/ HandleAuthKey(g)
    \/ CallBroadcastMessage(g)
    \/ BroadcastMessage(g)
    \/ CanStreamRLock(g)
    \/ CanStreamRead(g)
    \/ CanStreamRUnlock(g)

SpecState == Init /\ [][NextState]_vars

\* C31: every write of Session.State is made by a goroutine holding the write
\* lock of Session.Mu, and every read of it by a goroutine holding at least
\* the read lock: no interleaving of the goroutines reaches a state in which
\* State was written or read without the lock.
C31_StateUnderMu ==
  lastAcc.op # "none" => lastAcc.locked

----------------------------------------------------------------------------
\* The server: Start, the receive loop it ends in, the two ticker loops it
\* starts, and Stop.

MaxReads == 3

SessionFrame ==
  UNCHANGED <<sessVars, outVars, txGhost, rxGhost, codecVars, concVars, streamVars, fnVars>>

\* the step changes no variable but those of the Server object
ServerFrame == SessionFrame /\ UNCHANGED <<stVars, lsnVars>>

\* Start: conn, err := net.ListenUDP(...); s.conn = conn;
\* s.raknet = NewRakNetHandler(conn, s)
StartBind ==
  /\ spc.Start = "idle"
  /\ conn' = "open"
  /\ spc' = [spc EXCEPT !.Start = "setRunning"]
  /\ UNCHANGED running
  /\ ServerFrame

\* Start: s.running = true
StartSetRunning ==
  /\ spc.Start = "setRunning"
  /\ running' = TRUE
  /\ spc' = [spc EXCEPT !.Start = "goUpdate"]
  /\ UNCHANGED conn
  /\ ServerFrame

\* Start: go s.updateLoop()
StartGoUpdateLoop ==
  /\ spc.Start = "goUpdate"
  /\ spc' = [spc EXCEPT !.Start = "goCleanup", !.updateLoop = "check"]
  /\ UNCHANGED <<running, conn>>
  /\ ServerFrame

\* Start: go s.sessionCleanupLoop(); return s.listen()
StartGoCleanupLoop ==
  /\ spc.Start = "goCleanup"
  /\ spc' = [spc EXCEPT !.Start = "listen", !.sessionCleanupLoop = "check"]
  /\ UNCHANGED <<running, conn>>
  /\ ServerFrame

\* listen: for s.running { ... } return nil
ListenCheck ==
  /\ spc.Start = "listen"
  /\ spc' = [spc EXCEPT !.Start = IF running THEN "read" ELSE "returned"]
  /\ UNCHANGED <<running, conn>>
  /\ ServerFrame

\* what the peer puts in its next datagram: its next ordered packet, or an
\* unreliable one
PeerPackets ==
  LET k == Cardinality({i \in 1..Len(readLog) :
                          readLog[i].Packets[1].Reliability = RELIABLE_ORDERED})
  IN  {<<RxPacket(RELIABLE_ORDERED, 0, k, <<10 + k>>)>>,
       <<RxPacket(UNRELIABLE, 0, 0, <<20>>)>>}

\* listen, a round of the loop in which ReadFromUDP returns a datagram:
\* copy, go s.raknet.HandlePacket(data, addr). The peer numbers its
\* datagrams 0, 1, 2, ...
Listen(packets) ==
  /\ spc.Start = "read"
  /\ conn = "open"
  /\ readLog' = Append(readLog, [SequenceNumber |-> Len(readLog), Packets |-> packets])
  /\ pending' = pending \cup {Len(readLog) + 1}
  /\ spc' = [spc EXCEPT !.Start = "listen"]
  /\ UNCHANGED <<running, conn, stVars>>
  /\ SessionFrame

\* listen, a round of the loop in which ReadFromUDP fails (the socket is
\* closed): if err != nil { ...; continue }
ListenError ==
  /\ spc.Start = "read"
  /\ conn = "closed"
  /\ spc' = [spc EXCEPT !.Start = "listen"]
  /\ UNCHANGED <<running, conn>>
  /\ ServerFrame

\* the goroutine of the i-th datagram runs: RakNetHandler.HandlePacket hands
\* the datagram to the session (Session.HandleDataPacket)
HandlePacket(i) ==
  /\ i \in pending
  /\ pending' = pending \ {i}
  /\ IngestDatagram(readLog[i])
  /\ UNCHANGED <<stVars, readLog, runVars>>

\* updateLoop / sessionCleanupLoop: for s.running { ... } and, at the end,
\* the deferred ticker.Stop()
LoopCheck(loop) ==
  /\ spc[loop] = "check"
  /\ spc' = [spc EXCEPT ![loop] = IF running THEN "tick" ELSE "exited"]
  /\ UNCHANGED <<running, conn>>
  /\ ServerFrame

\* updateLoop / sessionCleanupLoop: <-ticker.C, then s.raknet.Update() or
\* s.raknet.CleanupStaleSessions(). What the two calls do to the sessions is
\* in raknet_handler.go and is left out.
LoopTick(loop) ==
  /\ spc[loop] = "tick"
  /\ spc' = [spc EXCEPT ![loop] = "check"]
  /\ UNCHANGED <<running, conn>>
  /\ ServerFrame

Loops == {"updateLoop", "sessionCleanupLoop"}

\* Stop, called once Start has bound the socket: s.running = false
StopClearRunning ==
  /\ spc.Start # "idle"
  /\ spc.Stop = "idle"
  /\ running' = FALSE
  /\ spc' = [spc EXCEPT !.Stop = "close"]
  /\ UNCHANGED conn
  /\ ServerFrame

\* Stop: if s.conn != nil { s.conn.Close() }
StopClose ==
  /\ spc.Stop = "close"
  /\ conn' = IF conn = "nil" THEN "nil" ELSE "closed"
  /\ spc' = [spc EXCEPT !.Stop = "returned"]
  /\ UNCHANGED running
  /\ ServerFrame

\* the steps of Start up to the receive loop
StartSteps ==
  \/ StartBind
  \/ StartSetRunning
  \/ StartGoUpdateLoop
  \/ StartGoCleanupLoop

----------------------------------------------------------------------------
\* SpecListen: the server is started and not stopped; the receive loop reads
\* the datagrams of one peer and the goroutines it starts hand them to the
\* peer's session.

NextListen ==
  \/ StartSteps
  \/ ListenCheck
  \/ Len(readLog) < MaxReads /\ \E packets \in PeerPackets : Listen(packets)
  \/ \E i \in pending : HandlePacket(i)

SpecListen == Init /\ [][NextListen]_vars

\* C32: the datagrams of a peer are ingested by its session in the order
\* the receive loop read them: when a datagram has been handled, every
\* datagram read before it has been handled too.
C32_IngestInReadOrder ==
  \A i \in 1..Len(readLog) : \A j \in 1..Len(readLog) :
    (i < j /\ j \notin pending) => i \notin pending

----------------------------------------------------------------------------
\* SpecStop: Start, the loops and one call of Stop, under the scheduling of
\* the Go runtime: a goroutine that can take a step takes it in the end, and
\* the tickers keep firing. A datagram arrives only if the peer sends one.

NextStop ==
  \/ StartSteps
  \/ ListenCheck
  \/ Len(readLog) < MaxReads /\ \E packets \in PeerPackets : Listen(packets)
  \/ ListenError
  \/ \E loop \in Loops : LoopCheck(loop) \/ LoopTick(loop)
  \/ StopClearRunning
  \/ StopClose

StopFair ==
  /\ WF_vars(StartSteps)
  /\ WF_vars(ListenCheck)
  /\ WF_vars(ListenError)
  /\ \A loop \in Loops : WF_vars(LoopCheck(loop)) /\ WF_vars(LoopTick(loop))
  /\ WF_vars(StopClose)

SpecStop == Init /\ [][NextStop]_vars /\ StopFair

AllExited ==
  /\ spc.Start = "returned"
  /\ spc.updateLoop = "exited"
  /\ spc.sessionCleanupLoop = "exited"

\* C33: after Stop has been called on a started server, the receive loop,
\* the 50 ms tick loop and the cleanup loop all exit in the end, whatever the
\* interleaving of Stop with Start and with the loops.
C33_LoopsExitAfterStop ==
  (spc.Stop # "idle") ~> AllExited

----------------------------------------------------------------------------
\* The one-shot guard flags (SpecSession)

\* C34: each of HandshakeSent, StreamingDone, GameEntrySent,
\* PostStreamingSent and JoinResponseSent is set once: after it has become
\* true, no operation of the session makes it false again.
C34_FlagsSetOnce ==
  [][\A f \in FlagNames : Flags[f] => Flags'[f]]_vars

----------------------------------------------------------------------------
\* SpecLength: the payload length DecodeDataPacket computes, for any 16-bit
\* length field.

InitLength ==
  /\ InitCommon
  /\ CodecOff
  /\ MessageIndex = 0
  /\ SequenceNumber = 0
  /\ OrderIndex = 0
  /\ fIn \in 0..(U16 - 1)
  /\ fOut = NoResult

CallLengthBytes ==
  /\ fOut = NoResult
  /\ fOut' = LengthBytes(fIn)
  /\ FnFrame

NextLength == CallLengthBytes

SpecLength == InitLength /\ [][NextLength]_vars

\* C38: for every length_bits 0..65535 the payload length in bytes is
\* ceil(length_bits / 8), with no wrap-around.
C38_LengthBytesIsCeil ==
  fOut # NoResult => fOut * 8 >= fIn /\ fOut * 8 < fIn + 8

----------------------------------------------------------------------------
\* SpecTrunc: a datagram is encoded, the bytes are damaged on the way (cut
\* short, the length field of the last packet overwritten, or bit 7 of the
\* first byte cleared) and then handed to DecodeDataPacket.

\* the datagram loses its tail: only the first n bytes arrive
CodecCut(n) ==
  /\ cpc = "encoded"
  /\ n < Len(cBytes)
  /\ cBytes' = SubSeq(cBytes, 1, n)
  /\ UNCHANGED <<sessVars, outVars, txGhost, rxGhost, cpc, cDp, cDec, concVars, streamVars, fnVars, srvVars>>

\* the length field of the last packet arrives as 0xFFFF: 65535 bits, more
\* payload than the datagram holds
CodecStretch ==
  /\ cpc = "encoded"
  /\ cDp.Packets # <<>>
  /\ cBytes = Encode(cDp)
  /\ LET at == Len(cBytes) - GetSize(cDp.Packets[Len(cDp.Packets)]) + 1
     IN  cBytes' = [cBytes EXCEPT ![at + 1] = 255, ![at + 2] = 255]
  /\ UNCHANGED <<sessVars, outVars, txGhost, rxGhost, cpc, cDp, cDec, concVars, streamVars, fnVars, srvVars>>

\* the first byte arrives with bit 7 clear
CodecClear ==
  /\ cpc = "encoded"
  /\ Len(cBytes) > 0
  /\ cBytes[1] >= 128
  /\ cBytes' = [cBytes EXCEPT ![1] = @ - 128]
  /\ UNCHANGED <<sessVars, outVars, txGhost, rxGhost, cpc, cDp, cDec, concVars, streamVars, fnVars, srvVars>>

NextTrunc ==
  \/ CodecEncode
  \/ \E n \in 0..Len(cBytes) : CodecCut(n)
  \/ CodecStretch
  \/ CodecClear
  \/ CodecDecode

SpecTrunc == InitCodec /\ [][NextTrunc]_vars

\* the bytes of the first j packets of the datagram, after the 4-byte header,
\* arrived as they were encoded
ArrivedWhole(j) ==
  LET enc == EncodePackets(SubSeq(cDp.Packets, 1, j))
  IN  /\ 4 + Len(enc) <= Len(cBytes)
      /\ SubSeq(cBytes, 5, 4 + Len(enc)) = enc

\* the decoded packet b carries the fields of the encoded packet a; the
\* sequence index of the sequenced tiers, which DecodeDataPacket skips, is
\* left aside
KeptAsEncoded(a, b) ==
  PacketAgrees([a EXCEPT !.OrderIndex = IF IsSequenced(a.Reliability) THEN b.OrderIndex ELSE @], b)

\* C35: DecodeDataPacket on a datagram whose k-th packet is truncated or
\* malformed (a header field or the payload reaches past the end of the data)
\* returns without error exactly the k-1 packets before it, with their fields
\* as encoded; it returns an error only when the data is shorter than 4 bytes
\* or bit 7 of the first byte is clear.
C35_TruncatedTailDropped ==
  cpc = "decoded" =>
    LET bad   == Len(cBytes) < 4 \/ cBytes[1] < 128
        whole == {j \in 0..Len(cDp.Packets) : ArrivedWhole(j)}
    IN  /\ cDec.err <=> bad
        /\ ~bad =>
             /\ Len(cDec.Packets) \in whole
             /\ \A j \in whole : j <= Len(cDec.Packets)
             /\ \A i \in 1..Len(cDec.Packets) : KeptAsEncoded(cDp.Packets[i], cDec.Packets[i])

----------------------------------------------------------------------------
\* SpecShort: values are written to a BitStream, the reader gets a slice
\* that may have lost its tail, and reads the values back with the matching
\* Read operations.

\* NewBitStream over the first n bytes of what was written
BsCut(n) ==
  /\ bsGot = <<>>
  /\ \E d \in {Flat(bsData)} :
       /\ n < Len(d)
       /\ bsData' = Paged(SubSeq(d, 1, n))
  /\ UNCHANGED <<bsOffset, bsWritten, bsGot>>
  /\ StreamFrame

NextShort ==
  \/ /\ Len(bsWritten) < MaxWrites
     /\ bsGot = <<>>
     /\ \/ \E v \in Bytes : BsWriteByte(v)
        \/ \E v \in Uint16s : BsWriteUint16(v)
        \/ \E v \in Uint24s : BsWriteUint24(v)
        \/ \E v \in Uint32s : BsWriteUint32(v)
        \/ \E v \in Uint64s : BsWriteUint64(v)
        \/ \E v \in Strings : BsWriteString(v)
        \/ \E v \in Addresses : BsWriteAddress(v)
  \/ \E n \in 0..PagedLen(bsData) : BsCut(n)
  \/ BsReadByte \/ BsReadUint16 \/ BsReadUint24 \/ BsReadUint32
  \/ BsReadUint64 \/ BsReadString \/ BsReadAddress

SpecShort == Init /\ [][NextShort]_vars

\* the bytes the value of this kind takes at the read offset: for a string
\* the two bytes of the length and, if they are there, as many as they say
BytesRequired(kind) ==
  CASE kind = "byte"   -> 1
    [] kind = "uint16" -> 2
    [] kind = "uint24" -> 3
    [] kind = "uint32" -> 4
    [] kind = "uint64" -> 8
    [] kind = "addr"   -> 7
    [] kind = "string" ->
         IF bsOffset + 2 > PagedLen(bsData) THEN 2
         ELSE 2 + BE16(Flat(bsData), bsOffset)

\* C36: every BitStream read returns an error when fewer bytes remain than
\* the value requires, and a failed read consumes nothing: the read offset
\* after the failed call is the offset before it.
C36_FailedReadConsumesNothing ==
  [][bsGot' # bsGot =>
       LET got == bsGot'[Len(bsGot')]
       IN  /\ bsOffset + BytesRequired(got.kind) > PagedLen(bsData) => got.err
           /\ got.err => bsOffset' = bsOffset]_vars

----------------------------------------------------------------------------
\* The buffer under the reads (SpecStream)

\* C37: the BitStream read operations leave the bytes of the underlying
\* buffer unchanged, so that decoding the same slice again (reading an
\* address from it through a second BitStream) gives the same result.
C37_ReadsKeepBuffer ==
  [][bsGot' # bsGot =>
       /\ bsData' = bsData
       /\ ReadAddress(Flat(bsData'), bsOffset).v = ReadAddress(Flat(bsData), bsOffset).v]_vars

----------------------------------------------------------------------------
\* SpecWrap: the sending side of a session that has sent 2^24 - 1 datagrams,
\* all of them acknowledged: the next datagram carries the last 24-bit
\* sequence number.

InitWrap ==
  /\ InitCommon
  /\ CodecOff
  /\ FnOff
  /\ MessageIndex = 0
  /\ SequenceNumber = U24 - 1
  /\ OrderIndex = 0

SpecWrap == InitWrap /\ [][Next]_vars

\* the sequence number in bytes 1..3 of the datagram as DataPacket.Encode
\* writes it
WireSequence(dp) == LE24(Encode(dp), 1)

\* C39: the outbound sequence is a 24-bit counter: SequenceNumber stays
\* below 2^24 (the datagram after 2^24 - 1 carries 0), so the key under which
\* a datagram is stored in RecoveryQueue is the sequence written on the wire,
\* the one an ACK of the peer names.
C39_Sequence24Bit ==
  /\ SequenceNumber < U24
  /\ \A k \in DOMAIN RecoveryQueue : WireSequence(RecoveryQueue[k]) = k

----------------------------------------------------------------------------
\* SpecAckPair: one list of sequence numbers is handed to the ACK and NACK
\* encoders of both packages, source/protocol (ACK.Encode, NACK.Encode) and
\* pkg/raknet (EncodeACK, EncodeNACK).

\* pkg/raknet: for each sequence the record type 0x01 (single) and
\* WriteUint24LE(seq)
RECURSIVE EncodeSingleRecords(_)
EncodeSingleRecords(sequences) ==
  IF sequences = <<>> THEN <<>>
  ELSE <<1, ByteAt(Head(sequences), 0), ByteAt(Head(sequences), 8), ByteAt(Head(sequences), 16)>>
       \o EncodeSingleRecords(Tail(sequences))

\* raknet.EncodeACK: ID_ACK, the count little-endian, the records
EncodeACK(sequences) ==
  LET count == Len(sequences) % U16
  IN  <<192, ByteAt(count, 0), ByteAt(count, 8)>> \o EncodeSingleRecords(sequences)

\* raknet.EncodeNACK: ID_NACK, the count little-endian, the records
EncodeNACK(sequences) ==
  LET count == Len(sequences) % U16
  IN  <<160, ByteAt(count, 0), ByteAt(count, 8)>> \o EncodeSingleRecords(sequences)

InitAckPair ==
  /\ InitCommon
  /\ CodecOff
  /\ MessageIndex = 0
  /\ SequenceNumber = 0
  /\ OrderIndex = 0
  /\ fIn \in SeqLists
  /\ fOut = [ACK |-> NotCalled, NACK |-> NotCalled,
             EncodeACK |-> NotCalled, EncodeNACK |-> NotCalled]

CallEncodeACK ==
  /\ fOut.EncodeACK = NotCalled
  /\ fOut' = [fOut EXCEPT !.EncodeACK = EncodeACK(fIn)]
  /\ FnFrame

CallEncodeNACK ==
  /\ fOut.EncodeNACK = NotCalled
  /\ fOut' = [fOut EXCEPT !.EncodeNACK = EncodeNACK(fIn)]
  /\ FnFrame

NextAckPair == CallACKEncode \/ CallNACKEncode \/ CallEncodeACK \/ CallEncodeNACK

SpecAckPair == InitAckPair /\ [][NextAckPair]_vars

\* C40: the two ACK / NACK encoders agree: for every list of sequence
\* numbers raknet.EncodeACK gives the bytes of ACK.Encode and
\* raknet.EncodeNACK the bytes of NACK.Encode.
C40_EncodersAgree ==
  /\ (fOut.ACK # NotCalled /\ fOut.EncodeACK # NotCalled) => fOut.EncodeACK = fOut.ACK
  /\ (fOut.NACK # NotCalled /\ fOut.EncodeNACK # NotCalled) => fOut.EncodeNACK = fOut.NACK

====
